---------------------------- MODULE Spec2Model ----------------------------
(***************************************************************************)
(* A model of the clite terminal text editor (src/clite.cpp).              *)
(*                                                                         *)
(* Characters and keys are the integer codes the program uses.  A row is   *)
(* the record [chars, render, hl] of struct erow (size and rsize are the   *)
(* lengths of chars and render).  The editor state is the record E of      *)
(* struct editorConfig; the function-local statics (quit_times,            *)
(* last_match, direction, saved_hl) are variables of their own.            *)
(* Rows are indexed from 0 in the program and from 1 in a TLA+ sequence:   *)
(* row r of the program is e.row[r + 1].                                   *)
(***************************************************************************)
EXTENDS Integers, Sequences, FiniteSets, TLC

(***************************************************************************)
(* defines                                                                 *)
(***************************************************************************)
CLITE_TAB_STOP == 8
CLITE_QUIT_TIMES == 3

\* CTRL_KEY(k) is (k) & 0x1f: the low five bits of k.
CTRL_KEY(k) == k % 32

\* Character codes the program names in its source.
NUL == 0
TAB == 9
CR == 13
ESC == 27
SPACE == 32
DQUOTE == 34
SQUOTE == 39
DOT == 46
SLASH == 47
CH_0 == 48
CH_1 == 49
CH_9 == 57
BACKSLASH == 92
CH_c == 99
CH_f == 102
CH_h == 104
CH_l == 108
CH_p == 112
CH_q == 113
CH_s == 115
DEL == 127
CH_A == 65
CH_B == 66
CH_C == 67
CH_D == 68
CH_F == 70
CH_H == 72
CH_O == 79
CH_Z == 90
LBRACKET == 91
CH_x == 120
CH_y == 121
TILDE == 126

\* enum editorKey
BACKSPACE == 127
ARROW_LEFT == 1000
ARROW_RIGHT == ARROW_LEFT + 1
ARROW_UP == ARROW_LEFT + 2
ARROW_DOWN == ARROW_LEFT + 3
DEL_KEY == ARROW_LEFT + 4
HOME_KEY == ARROW_LEFT + 5
END_KEY == ARROW_LEFT + 6
PAGE_UP == ARROW_LEFT + 7
PAGE_DOWN == ARROW_LEFT + 8

\* enum editorHighlight
HL_NORMAL == 0
HL_COMMENT == 1
HL_STRING == 2
HL_NUMBER == 3
HL_MATCH == 4

HL_HIGHLIGHT_NUMBERS == 1
HL_HIGHLIGHT_STRINGS == 2

\* flags & bit, for a one-bit mask.
HasFlag(flags, bit) == (flags \div bit) % 2 = 1

\* Pointers: NULL is the empty set and a pointer to v is {v}, so that a
\* pointer compares with NULL whatever it points to.
NULL == {}
Ptr(v) == {v}
Deref(p) == CHOOSE v \in p : TRUE

(***************************************************************************)
(* filetypes                                                               *)
(***************************************************************************)
C_HL_extensions == << <<DOT, CH_c>>, <<DOT, CH_h>>, <<DOT, CH_c, CH_p, CH_p>> >>

HLDB ==
  << [ filetype |-> "c",
       filematch |-> C_HL_extensions,
       singleline_comment_start |-> Ptr(<<SLASH, SLASH>>),
       flags |-> HL_HIGHLIGHT_NUMBERS + HL_HIGHLIGHT_STRINGS ] >>

HLDB_ENTRIES == Len(HLDB)

(***************************************************************************)
(* C library functions over character sequences                            *)
(***************************************************************************)
\* isspace() in the C locale: space, \t, \n, \v, \f, \r.
isspace(c) == c = SPACE \/ (c >= TAB /\ c <= CR)

isdigit(c) == c >= CH_0 /\ c <= CH_9

\* iscntrl() in the C locale: codes 0..31 and 127.
iscntrl(c) == (c >= NUL /\ c < SPACE) \/ c = DEL

\* Whether seq t occurs in s at (0-based) offset i.
OccursAt(s, t, i) ==
  /\ i + Len(t) <= Len(s)
  /\ \A k \in 1..Len(t) : s[i + k] = t[k]

\* strstr(s, t): the offset of the first occurrence of t in s, or -1.
strstr(s, t) ==
  LET hits == { i \in 0..Len(s) : OccursAt(s, t, i) }
  IN  IF hits = {} THEN -1
      ELSE CHOOSE i \in hits : \A j \in hits : i <= j

\* strrchr(s, c): the offset of the last occurrence of c in s, or -1.
strrchr(s, c) ==
  LET hits == { i \in 0..(Len(s) - 1) : s[i + 1] = c }
  IN  IF hits = {} THEN -1
      ELSE CHOOSE i \in hits : \A j \in hits : j <= i

\* The tail of s from (0-based) offset i.
Tail0(s, i) == SubSeq(s, i + 1, Len(s))

\* memset(&a[from], v, n) on a sequence.
memset(a, from, v, n) ==
  [ k \in 1..Len(a) |-> IF k - 1 >= from /\ k - 1 < from + n THEN v ELSE a[k] ]

(***************************************************************************)
(* syntax highlighting                                                     *)
(***************************************************************************)
SeparatorChars ==
  { 44, 46, 40, 41, 43, 45, 47, 42, 61, 126, 37, 60, 62, 91, 93, 59 }

\* strchr(",.()+-/*=~%<>[];", c) also finds the terminating NUL.
is_separator(c) == isspace(c) \/ c = NUL \/ c \in SeparatorChars

\* The while loop of editorUpdateSyntax, from position i.
RECURSIVE SyntaxLoop(_, _, _, _, _, _)
SyntaxLoop(syn, render, hl, i, prev_sep, in_string) ==
  IF i >= Len(render) THEN hl
  ELSE
    LET c == render[i + 1]
        prev_hl == IF i > 0 THEN hl[i] ELSE HL_NORMAL
        scs == syn.singleline_comment_start
        scs_len == IF scs = NULL THEN 0 ELSE Len(Deref(scs))
        strings == HasFlag(syn.flags, HL_HIGHLIGHT_STRINGS)
        numbers == HasFlag(syn.flags, HL_HIGHLIGHT_NUMBERS)
    IN
      IF scs_len # 0 /\ in_string = 0 /\ OccursAt(render, Deref(scs), i)
      THEN memset(hl, i, HL_COMMENT, Len(render) - i)
      ELSE IF strings /\ in_string # 0
      THEN
        IF c = BACKSLASH /\ i + 1 < Len(render)
        THEN SyntaxLoop(syn, render,
                        [hl EXCEPT ![i + 1] = HL_STRING, ![i + 2] = HL_STRING],
                        i + 2, prev_sep, in_string)
        ELSE SyntaxLoop(syn, render, [hl EXCEPT ![i + 1] = HL_STRING],
                        i + 1, TRUE, IF c = in_string THEN 0 ELSE in_string)
      ELSE IF strings /\ (c = DQUOTE \/ c = SQUOTE)
      THEN SyntaxLoop(syn, render, [hl EXCEPT ![i + 1] = HL_STRING],
                      i + 1, prev_sep, c)
      ELSE IF numbers /\ ( (isdigit(c) /\ (prev_sep \/ prev_hl = HL_NUMBER))
                           \/ (c = DOT /\ prev_hl = HL_NUMBER) )
      THEN SyntaxLoop(syn, render, [hl EXCEPT ![i + 1] = HL_NUMBER],
                      i + 1, FALSE, in_string)
      ELSE SyntaxLoop(syn, render, hl, i + 1, is_separator(c), in_string)

\* editorUpdateSyntax with prev_sep initialised to 0.
editorUpdateSyntax_NoSepAtStart(syn, render) ==
  LET normal == [ k \in 1..Len(render) |-> HL_NORMAL ]
  IN  IF syn = NULL THEN normal
      ELSE SyntaxLoop(Deref(syn), render, normal, 0, FALSE, 0)

\* editorUpdateSyntax(row) under the profile syn (E.syntax): the new hl.
editorUpdateSyntax(syn, render) ==
  LET normal == [ k \in 1..Len(render) |-> HL_NORMAL ]
  IN  IF syn = NULL THEN normal
      ELSE SyntaxLoop(Deref(syn), render, normal, 0, TRUE, 0)

(***************************************************************************)
(* row operations                                                          *)
(***************************************************************************)
\* The loop of editorRowCxToRx as it would be with every tab
\* CLITE_TAB_STOP columns wide.
RECURSIVE CxToRxLoop_FullTab(_, _, _, _)
CxToRxLoop_FullTab(chars, cx, j, rx) ==
  IF j < cx
  THEN LET rx1 == IF chars[j + 1] = TAB
                  THEN rx + (CLITE_TAB_STOP - 1)
                  ELSE rx
       IN  CxToRxLoop_FullTab(chars, cx, j + 1, rx1 + 1)
  ELSE rx

\* The for loop of editorRowCxToRx, from column j with render column rx.
RECURSIVE CxToRxLoop(_, _, _, _)
CxToRxLoop(chars, cx, j, rx) ==
  IF j < cx
  THEN LET rx1 == IF chars[j + 1] = TAB
                  THEN rx + (CLITE_TAB_STOP - 1) - (rx % CLITE_TAB_STOP)
                  ELSE rx
       IN  CxToRxLoop(chars, cx, j + 1, rx1 + 1)
  ELSE rx

editorRowCxToRx(row, cx) == CxToRxLoop(row.chars, cx, 0, 0)

\* The loop of editorRowRxToCx as it would be with cur_rx >= rx for its
\* test.
RECURSIVE RxToCxLoop_Geq(_, _, _, _)
RxToCxLoop_Geq(chars, rx, cx, cur_rx) ==
  IF cx < Len(chars)
  THEN LET r1 == IF chars[cx + 1] = TAB
                 THEN cur_rx + (CLITE_TAB_STOP - 1) - (cur_rx % CLITE_TAB_STOP)
                 ELSE cur_rx
           r2 == r1 + 1
       IN  IF r2 >= rx THEN cx ELSE RxToCxLoop_Geq(chars, rx, cx + 1, r2)
  ELSE cx

\* The for loop of editorRowRxToCx, from column cx with render column cur_rx.
RECURSIVE RxToCxLoop(_, _, _, _)
RxToCxLoop(chars, rx, cx, cur_rx) ==
  IF cx < Len(chars)
  THEN LET r1 == IF chars[cx + 1] = TAB
                 THEN cur_rx + (CLITE_TAB_STOP - 1) - (cur_rx % CLITE_TAB_STOP)
                 ELSE cur_rx
           r2 == r1 + 1
       IN  IF r2 > rx THEN cx ELSE RxToCxLoop(chars, rx, cx + 1, r2)
  ELSE cx

editorRowRxToCx(row, rx) == RxToCxLoop(row.chars, rx, 0, 0)

\* The padding loop as it would be with the first space of a tab left out
\* of the count (idx % CLITE_TAB_STOP != 1).
RECURSIVE PadToTabStop_OffByOne(_)
PadToTabStop_OffByOne(render) ==
  IF Len(render) % CLITE_TAB_STOP # 1
  THEN PadToTabStop_OffByOne(Append(render, SPACE))
  ELSE render

\* while (idx % CLITE_TAB_STOP != 0) render[idx++] = ' ';
RECURSIVE PadToTabStop(_)
PadToTabStop(render) ==
  IF Len(render) % CLITE_TAB_STOP # 0
  THEN PadToTabStop(Append(render, SPACE))
  ELSE render

\* The copy loop of editorUpdateRow, from column j (idx is Len(render)).
RECURSIVE RenderLoop(_, _, _)
RenderLoop(chars, j, render) ==
  IF j < Len(chars)
  THEN IF chars[j + 1] = TAB
       THEN RenderLoop(chars, j + 1, PadToTabStop(Append(render, SPACE)))
       ELSE RenderLoop(chars, j + 1, Append(render, chars[j + 1]))
  ELSE render

\* editorUpdateRow(row): render and hl derived again from chars.
editorUpdateRow(syn, row) ==
  LET render == RenderLoop(row.chars, 0, << >>)
  IN  [ chars |-> row.chars,
        render |-> render,
        hl |-> editorUpdateSyntax(syn, render) ]

\* A sequence with x put before (0-based) index at.
InsertAt(s, at, x) == SubSeq(s, 1, at) \o <<x>> \o SubSeq(s, at + 1, Len(s))

\* A sequence without its element at (0-based) index at.
RemoveAt(s, at) == SubSeq(s, 1, at) \o SubSeq(s, at + 2, Len(s))

\* E.numrows
numrows(e) == Len(e.row)

\* editorInsertRow without E.dirty++.
editorInsertRow_NoDirty(e, at, s) ==
  IF at < 0 \/ at > numrows(e) THEN e
  ELSE LET new == editorUpdateRow(e.syntax,
                                  [chars |-> s, render |-> << >>, hl |-> << >>])
       IN  [e EXCEPT !.row = InsertAt(e.row, at, new)]

\* editorInsertRow(at, s, len)
editorInsertRow(e, at, s) ==
  IF at < 0 \/ at > numrows(e) THEN e
  ELSE LET new == editorUpdateRow(e.syntax,
                                  [chars |-> s, render |-> << >>, hl |-> << >>])
       IN  [e EXCEPT !.row = InsertAt(e.row, at, new), !.dirty = @ + 1]

\* editorDelRow(at)
editorDelRow(e, at) ==
  IF at < 0 \/ at >= numrows(e) THEN e
  ELSE [e EXCEPT !.row = RemoveAt(e.row, at), !.dirty = @ + 1]

\* editorRowInsertChar(&E.row[r], at, c)
editorRowInsertChar(e, r, at, c) ==
  LET row == e.row[r + 1]
      at1 == IF at < 0 \/ at > Len(row.chars) THEN Len(row.chars) ELSE at
      new == editorUpdateRow(e.syntax,
                             [row EXCEPT !.chars = InsertAt(row.chars, at1, c)])
  IN  [e EXCEPT !.row[r + 1] = new, !.dirty = @ + 1]

\* editorRowAppendString(&E.row[r], s, len)
editorRowAppendString(e, r, s) ==
  LET row == e.row[r + 1]
      new == editorUpdateRow(e.syntax, [row EXCEPT !.chars = row.chars \o s])
  IN  [e EXCEPT !.row[r + 1] = new, !.dirty = @ + 1]

\* editorRowDelChar as it would be without its call of editorUpdateRow.
editorRowDelChar_NoUpdate(e, r, at) ==
  LET row == e.row[r + 1]
  IN  IF at < 0 \/ at >= Len(row.chars) THEN e
      ELSE [e EXCEPT !.row[r + 1].chars = RemoveAt(row.chars, at),
                     !.dirty = @ + 1]

\* editorRowDelChar(&E.row[r], at)
editorRowDelChar(e, r, at) ==
  LET row == e.row[r + 1]
  IN  IF at < 0 \/ at >= Len(row.chars) THEN e
      ELSE LET new == editorUpdateRow(e.syntax,
                        [row EXCEPT !.chars = RemoveAt(row.chars, at)])
           IN  [e EXCEPT !.row[r + 1] = new, !.dirty = @ + 1]

(***************************************************************************)
(* editor operations                                                       *)
(***************************************************************************)
editorInsertChar(e, c) ==
  LET e1 == IF e.cy = numrows(e) THEN editorInsertRow(e, numrows(e), << >>)
            ELSE e
      e2 == editorRowInsertChar(e1, e1.cy, e1.cx, c)
  IN  [e2 EXCEPT !.cx = @ + 1]

\* editorInsertNewline without cutting the cursor's row at E.cx.
editorInsertNewline_KeepsTail(e) ==
  LET e1 ==
        IF e.cx = 0 THEN editorInsertRow(e, e.cy, << >>)
        ELSE editorInsertRow(e, e.cy + 1, Tail0(e.row[e.cy + 1].chars, e.cx))
  IN  [e1 EXCEPT !.cy = @ + 1, !.cx = 0]

editorInsertNewline(e) ==
  LET e1 ==
        IF e.cx = 0 THEN editorInsertRow(e, e.cy, << >>)
        ELSE LET row == e.row[e.cy + 1]
                 e2 == editorInsertRow(e, e.cy + 1, Tail0(row.chars, e.cx))
                 row2 == e2.row[e.cy + 1]
                 cut == [row2 EXCEPT !.chars = SubSeq(row2.chars, 1, e.cx)]
             IN  [e2 EXCEPT !.row[e.cy + 1] = editorUpdateRow(e2.syntax, cut)]
  IN  [e1 EXCEPT !.cy = @ + 1, !.cx = 0]

\* editorDelChar without the editorDelRow of the join.
editorDelChar_KeepsRow(e) ==
  IF e.cy = numrows(e) THEN e
  ELSE IF e.cx = 0 /\ e.cy = 0 THEN e
  ELSE IF e.cx > 0
  THEN LET e1 == editorRowDelChar(e, e.cy, e.cx - 1)
       IN  [e1 EXCEPT !.cx = @ - 1]
  ELSE LET row == e.row[e.cy + 1]
           e1 == [e EXCEPT !.cx = Len(e.row[e.cy].chars)]
           e2 == editorRowAppendString(e1, e.cy - 1, row.chars)
       IN  [e2 EXCEPT !.cy = @ - 1]

\* editorDelChar as it would be with E.cx taken from the row above after
\* the append instead of before it.
editorDelChar_CxAfterAppend(e) ==
  IF e.cy = numrows(e) THEN e
  ELSE IF e.cx = 0 /\ e.cy = 0 THEN e
  ELSE IF e.cx > 0
  THEN LET e1 == editorRowDelChar(e, e.cy, e.cx - 1)
       IN  [e1 EXCEPT !.cx = @ - 1]
  ELSE LET row == e.row[e.cy + 1]
           e2 == editorRowAppendString(e, e.cy - 1, row.chars)
           e3 == [e2 EXCEPT !.cx = Len(e2.row[e.cy].chars)]
           e4 == editorDelRow(e3, e.cy)
       IN  [e4 EXCEPT !.cy = @ - 1]

editorDelChar(e) ==
  IF e.cy = numrows(e) THEN e
  ELSE IF e.cx = 0 /\ e.cy = 0 THEN e
  ELSE IF e.cx > 0
  THEN LET e1 == editorRowDelChar(e, e.cy, e.cx - 1)
       IN  [e1 EXCEPT !.cx = @ - 1]
  ELSE LET row == e.row[e.cy + 1]
           e1 == [e EXCEPT !.cx = Len(e.row[e.cy].chars)]
           e2 == editorRowAppendString(e1, e.cy - 1, row.chars)
           e3 == editorDelRow(e2, e.cy)
       IN  [e3 EXCEPT !.cy = @ - 1]

(***************************************************************************)
(* status message                                                          *)
(***************************************************************************)
\* A status message is the format string with its arguments (a %d argument
\* as a one-element sequence, a %s argument as the characters).
Msg(fmt, args) == [fmt |-> fmt, args |-> args]

MSG_HELP == Msg("HELP: Ctrl-S = save | Ctrl-Q = quit | Ctrl-F = find", << >>)
MSG_EMPTY == Msg("", << >>)
MSG_ABORTED == Msg("Save aborted", << >>)
MSG_WARNING(n) ==
  Msg("WARNING!!! File has unsaved changes. Press Ctrl-Q %d more times to quit.",
      <<n>>)
MSG_WRITTEN(len) == Msg("%d bytes written to disk", <<len>>)
MSG_CANT_SAVE == Msg("Can't save! I/O error: %s", << >>)
PROMPT_SAVE == "Save as: %s (ESC to cancel)"
PROMPT_FIND == "Search: %s (Use ESC/Arrows/Enter)"

\* editorSetStatusMessage(fmt, ...)
editorSetStatusMessage(e, msg) == [e EXCEPT !.statusmsg = msg]

(***************************************************************************)
(* filetypes: editorSelectSyntaxHighlight                                  *)
(***************************************************************************)
\* The test of one filematch pattern against E.filename.
FileMatches(name, pat) ==
  LET dot == strrchr(name, DOT)
      is_ext == pat[1] = DOT
  IN  \/ is_ext /\ dot # -1 /\ Tail0(name, dot) = pat
      \/ ~is_ext /\ strstr(name, pat) # -1

\* Whether HLDB[j] has a pattern matching the name.
EntryMatches(name, j) ==
  \E i \in 1..Len(HLDB[j].filematch) : FileMatches(name, HLDB[j].filematch[i])

\* editorSelectSyntaxHighlight as it would be without the loop over the
\* rows (lines 447-449): the profile is set, the rows keep their hl.
editorSelectSyntaxHighlight_KeepsHl(e) ==
  IF e.filename = NULL THEN [e EXCEPT !.syntax = NULL]
  ELSE
    LET name == Deref(e.filename)
        hits == { j \in 1..HLDB_ENTRIES : EntryMatches(name, j) }
    IN  IF hits = {} THEN [e EXCEPT !.syntax = NULL]
        ELSE LET j == CHOOSE x \in hits : \A y \in hits : x <= y
             IN  [e EXCEPT !.syntax = Ptr(HLDB[j])]

editorSelectSyntaxHighlight(e) ==
  IF e.filename = NULL THEN [e EXCEPT !.syntax = NULL]
  ELSE
    LET name == Deref(e.filename)
        hits == { j \in 1..HLDB_ENTRIES : EntryMatches(name, j) }
    IN  IF hits = {} THEN [e EXCEPT !.syntax = NULL]
        ELSE LET j == CHOOSE x \in hits : \A y \in hits : x <= y
                 syn == Ptr(HLDB[j])
             IN  [e EXCEPT
                    !.syntax = syn,
                    !.row = [ r \in 1..Len(e.row) |->
                              [e.row[r] EXCEPT
                                 !.hl = editorUpdateSyntax(syn, e.row[r].render)] ]]

(***************************************************************************)
(* file i/o                                                                *)
(***************************************************************************)
LF == 10

\* The first loop of editorRowsToString: totlen, from row j.
RECURSIVE TotLenLoop(_, _, _)
TotLenLoop(rows, j, totlen) ==
  IF j < Len(rows)
  THEN TotLenLoop(rows, j + 1, totlen + Len(rows[j + 1].chars) + 1)
  ELSE totlen

\* The second loop of editorRowsToString: the buffer, from row j.
RECURSIVE BufLoop(_, _, _)
BufLoop(rows, j, b) ==
  IF j < Len(rows)
  THEN BufLoop(rows, j + 1, b \o rows[j + 1].chars \o <<LF>>)
  ELSE b

\* editorRowsToString(&buflen): the buffer and *buflen.
editorRowsToString(e) ==
  [ buf |-> BufLoop(e.row, 0, << >>), buflen |-> TotLenLoop(e.row, 0, 0) ]

\* The line without its trailing newline and carriage return characters.
RECURSIVE StripEol(_)
StripEol(line) ==
  IF Len(line) > 0 /\ (line[Len(line)] = LF \/ line[Len(line)] = CR)
  THEN StripEol(SubSeq(line, 1, Len(line) - 1))
  ELSE line

\* The getline loop of editorOpen, from line k of the file.
RECURSIVE OpenLoop(_, _, _)
OpenLoop(e, lines, k) ==
  IF k <= Len(lines)
  THEN OpenLoop(editorInsertRow(e, numrows(e), StripEol(lines[k])), lines, k + 1)
  ELSE e

\* editorOpen(filename) of a file that fopen() opens, holding these lines.
editorOpen(e, filename, lines) ==
  LET e1 == editorSelectSyntaxHighlight([e EXCEPT !.filename = Ptr(filename)])
      e2 == OpenLoop(e1, lines, 1)
  IN  [e2 EXCEPT !.dirty = 0]

\* What open(), ftruncate() and write() of editorSave answer.
IoOutcomes == {"ok", "open fails", "ftruncate fails", "write fails"}

\* editorSaveWrite as it would be with E.dirty = 0 before the calls
\* instead of after their success.
editorSaveWrite_ClearsFirst(e, io) ==
  LET len == editorRowsToString(e).buflen
      e1 == [e EXCEPT !.dirty = 0]
  IN  IF io = "ok"
      THEN editorSetStatusMessage(e1, MSG_WRITTEN(len))
      ELSE editorSetStatusMessage(e1, MSG_CANT_SAVE)

\* editorSave() from the point where E.filename is set (lines 774-801).
editorSaveWrite(e, io) ==
  LET len == editorRowsToString(e).buflen
  IN  IF io = "ok"
      THEN editorSetStatusMessage([e EXCEPT !.dirty = 0], MSG_WRITTEN(len))
      ELSE editorSetStatusMessage(e, MSG_CANT_SAVE)

(***************************************************************************)
(* output: editorScroll                                                    *)
(***************************************************************************)
\* editorScroll as it would be with > for >= in its two tests against the
\* far edge of the window.
editorScroll_FarEdge(e) ==
  LET rx == IF e.cy < numrows(e) THEN editorRowCxToRx(e.row[e.cy + 1], e.cx)
            ELSE 0
      rowoff1 == IF e.cy < e.rowoff THEN e.cy ELSE e.rowoff
      rowoff2 == IF e.cy > rowoff1 + e.screenrows
                 THEN e.cy - e.screenrows + 1 ELSE rowoff1
      coloff1 == IF rx < e.coloff THEN rx ELSE e.coloff
      coloff2 == IF rx > coloff1 + e.screencols
                 THEN rx - e.screencols + 1 ELSE coloff1
  IN  [e EXCEPT !.rx = rx, !.rowoff = rowoff2, !.coloff = coloff2]

editorScroll(e) ==
  LET rx == IF e.cy < numrows(e) THEN editorRowCxToRx(e.row[e.cy + 1], e.cx)
            ELSE 0
      rowoff1 == IF e.cy < e.rowoff THEN e.cy ELSE e.rowoff
      rowoff2 == IF e.cy >= rowoff1 + e.screenrows
                 THEN e.cy - e.screenrows + 1 ELSE rowoff1
      coloff1 == IF rx < e.coloff THEN rx ELSE e.coloff
      coloff2 == IF rx >= coloff1 + e.screencols
                 THEN rx - e.screencols + 1 ELSE coloff1
  IN  [e EXCEPT !.rx = rx, !.rowoff = rowoff2, !.coloff = coloff2]

(***************************************************************************)
(* input: editorMoveCursor                                                 *)
(***************************************************************************)
\* The switch of editorMoveCursor.
MoveCursorStep(e, key) ==
  LET has_row == e.cy < numrows(e)
      size == IF has_row THEN Len(e.row[e.cy + 1].chars) ELSE 0
  IN  IF key = ARROW_LEFT
      THEN IF e.cx # 0 THEN [e EXCEPT !.cx = @ - 1]
           ELSE IF e.cy > 0
           THEN [e EXCEPT !.cy = @ - 1, !.cx = Len(e.row[e.cy].chars)]
           ELSE e
      ELSE IF key = ARROW_RIGHT
      THEN IF has_row /\ e.cx < size THEN [e EXCEPT !.cx = @ + 1]
           ELSE IF has_row /\ e.cx = size
           THEN [e EXCEPT !.cy = @ + 1, !.cx = 0]
           ELSE e
      ELSE IF key = ARROW_UP
      THEN IF e.cy # 0 THEN [e EXCEPT !.cy = @ - 1] ELSE e
      ELSE IF key = ARROW_DOWN
      THEN IF e.cy < numrows(e) THEN [e EXCEPT !.cy = @ + 1] ELSE e
      ELSE e

\* The correction of E.cx that ends editorMoveCursor.
ClampCx(e) ==
  LET rowlen == IF e.cy >= numrows(e) THEN 0 ELSE Len(e.row[e.cy + 1].chars)
  IN  IF e.cx > rowlen THEN [e EXCEPT !.cx = rowlen] ELSE e

\* editorMoveCursor as it would be without that correction.
editorMoveCursor_NoClamp(e, key) == MoveCursorStep(e, key)

\* editorMoveCursor with ARROW_LEFT at column 0 going to the start of the
\* row above.
editorMoveCursor_LeftToRowStart(e, key) ==
  IF key = ARROW_LEFT /\ e.cx = 0 /\ e.cy > 0
    THEN [e EXCEPT !.cy = @ - 1, !.cx = 0]
    ELSE ClampCx(MoveCursorStep(e, key))

editorMoveCursor(e, key) == ClampCx(MoveCursorStep(e, key))

\* while (times--) editorMoveCursor(key);
RECURSIVE MoveTimes(_, _, _)
MoveTimes(e, key, times) ==
  IF times > 0 THEN MoveTimes(editorMoveCursor(e, key), key, times - 1) ELSE e

\* The PAGE_UP / PAGE_DOWN case of editorProcessKeypress.
PageMove(e, c) ==
  LET e1 == IF c = PAGE_UP THEN [e EXCEPT !.cy = e.rowoff]
            ELSE LET cy1 == e.rowoff + e.screenrows - 1
                 IN  [e EXCEPT !.cy = IF cy1 > numrows(e) THEN numrows(e)
                                      ELSE cy1]
  IN  MoveTimes(e1, IF c = PAGE_UP THEN ARROW_UP ELSE ARROW_DOWN, e.screenrows)

(***************************************************************************)
(* search                                                                  *)
(***************************************************************************)
\* The scan loop as it would be with i < E.numrows - 1 for its test: the
\* pass ends one row short.
RECURSIVE ScanLoop_ShortPass(_, _, _, _, _)
ScanLoop_ShortPass(e, query, dir, i, current) ==
  IF i >= numrows(e) - 1 THEN -1
  ELSE LET c1 == current + dir
           c2 == IF c1 = -1 THEN numrows(e) - 1
                 ELSE IF c1 = numrows(e) THEN 0 ELSE c1
       IN  IF strstr(e.row[c2 + 1].render, query) # -1 THEN c2
           ELSE ScanLoop_ShortPass(e, query, dir, i + 1, c2)

\* The scan loop of editorFindCallback from iteration i: the row of the
\* first match, or -1 when the loop ends without one.
RECURSIVE ScanLoop(_, _, _, _, _)
ScanLoop(e, query, dir, i, current) ==
  IF i >= numrows(e) THEN -1
  ELSE LET c1 == current + dir
           c2 == IF c1 = -1 THEN numrows(e) - 1
                 ELSE IF c1 = numrows(e) THEN 0 ELSE c1
       IN  IF strstr(e.row[c2 + 1].render, query) # -1 THEN c2
           ELSE ScanLoop(e, query, dir, i + 1, c2)

\* The statics of editorFindCallback, as a record st of last_match,
\* direction, saved_hl_line and saved_hl, with the editor state e.
FindState(e, lm, dir, line, hl) ==
  [e |-> e, last_match |-> lm, direction |-> dir,
   saved_hl_line |-> line, saved_hl |-> hl]

\* The restore without its memcpy: the snapshot is freed and the row keeps
\* what it has.
RestoreHl_NoCopy(st) ==
  IF st.saved_hl # NULL
  THEN [st EXCEPT !.saved_hl = NULL, !.saved_hl_line = 0]
  ELSE st

\* if (saved_hl) { memcpy(...); free(saved_hl); saved_hl = NULL; }
\* saved_hl_line is read only here, under saved_hl # NULL, and written
\* whenever saved_hl is: the value it keeps while saved_hl is NULL is never
\* read, and the model holds 0 for it.
RestoreHl(st) ==
  IF st.saved_hl # NULL
  THEN [st EXCEPT !.e.row[st.saved_hl_line + 1].hl = Deref(st.saved_hl),
                  !.saved_hl = NULL,
                  !.saved_hl_line = 0]
  ELSE st

\* The scan without E.rowoff = E.numrows on a match.
FindScan_KeepsRowoff(st, query) ==
  LET dir == IF st.last_match = -1 THEN 1 ELSE st.direction
      current == ScanLoop(st.e, query, dir, 0, st.last_match)
  IN  IF current = -1 THEN [st EXCEPT !.direction = dir]
      ELSE LET row == st.e.row[current + 1]
               off == strstr(row.render, query)
               e1 == [st.e EXCEPT
                        !.cy = current,
                        !.cx = editorRowRxToCx(row, off),
                        !.row[current + 1].hl =
                            memset(row.hl, off, HL_MATCH, Len(query))]
           IN  FindState(e1, current, dir, current, Ptr(row.hl))

\* The scan of editorFindCallback with its effect on a match.
FindScan(st, query) ==
  LET dir == IF st.last_match = -1 THEN 1 ELSE st.direction
      current == ScanLoop(st.e, query, dir, 0, st.last_match)
  IN  IF current = -1 THEN [st EXCEPT !.direction = dir]
      ELSE LET row == st.e.row[current + 1]
               off == strstr(row.render, query)
               e1 == [st.e EXCEPT
                        !.cy = current,
                        !.cx = editorRowRxToCx(row, off),
                        !.rowoff = numrows(st.e),
                        !.row[current + 1].hl =
                            memset(row.hl, off, HL_MATCH, Len(query))]
           IN  FindState(e1, current, dir, current, Ptr(row.hl))

\* editorFindCallback with ARROW_LEFT and ARROW_UP selecting forward.
editorFindCallback_UpIsForward(st, query, key) ==
  LET s1 == RestoreHl(st)
  IN  IF key = CR \/ key = ESC
      THEN [s1 EXCEPT !.last_match = -1, !.direction = 1]
      ELSE IF key \in {ARROW_RIGHT, ARROW_DOWN, ARROW_LEFT, ARROW_UP}
      THEN FindScan([s1 EXCEPT !.direction = 1], query)
      ELSE FindScan([s1 EXCEPT !.last_match = -1, !.direction = 1], query)

\* editorFindCallback with last_match kept by the keys of its last branch.
editorFindCallback_KeepsMatch(st, query, key) ==
  LET s1 == RestoreHl(st)
  IN  IF key = CR \/ key = ESC
      THEN [s1 EXCEPT !.last_match = -1, !.direction = 1]
      ELSE IF key = ARROW_LEFT \/ key = ARROW_UP
      THEN FindScan([s1 EXCEPT !.direction = -1], query)
      ELSE FindScan([s1 EXCEPT !.direction = 1], query)

\* editorFindCallback(query, key)
editorFindCallback(st, query, key) ==
  LET s1 == RestoreHl(st)
  IN  IF key = CR \/ key = ESC
      THEN [s1 EXCEPT !.last_match = -1, !.direction = 1]
      ELSE IF key = ARROW_RIGHT \/ key = ARROW_DOWN
      THEN FindScan([s1 EXCEPT !.direction = 1], query)
      ELSE IF key = ARROW_LEFT \/ key = ARROW_UP
      THEN FindScan([s1 EXCEPT !.direction = -1], query)
      ELSE FindScan([s1 EXCEPT !.last_match = -1, !.direction = 1], query)

(***************************************************************************)
(* input: editorPrompt                                                     *)
(***************************************************************************)
\* The buffer of editorPrompt after key c.
PromptBuf(b, c) ==
  IF c = DEL_KEY \/ c = CTRL_KEY(CH_h) \/ c = BACKSPACE
  THEN IF Len(b) # 0 THEN SubSeq(b, 1, Len(b) - 1) ELSE b
  ELSE IF c = ESC \/ c = CR THEN b
  ELSE IF ~iscntrl(c) /\ c < 128 THEN Append(b, c)
  ELSE b

\* editorPrompt as it would be without the test of buflen on Enter.
PromptReturns_EmptyEnter(b, c) == c = ESC \/ c = CR

\* Whether key c makes editorPrompt return, and what it returns.
PromptReturns(b, c) == c = ESC \/ (c = CR /\ Len(b) # 0)
PromptResult(b, c) == IF c = ESC THEN NULL ELSE Ptr(b)

(***************************************************************************)
(* Bounds of the model and the inputs it draws                             *)
(***************************************************************************)
\* The most rows and the most characters (over all rows) a document holds.
MaxRows == 2
MaxCells == 2
\* Editing keys are taken while the dirty counter is below MaxDirty.
MaxDirty == 1
\* The text area of the terminal: E.screenrows and E.screencols.
ScreenRows == 1
ScreenCols == 2

\* The characters typed into the text.
InsChars == {TAB, CH_1}
\* What is typed into a prompt, character by character (and erased again):
\* the prefixes of these file names and of these search queries.
SaveNames == { <<DOT, CH_c>> }
FindQueries == { <<CH_1, SPACE>>, <<SPACE>> }

\* The files given on the command line: a name and the lines getline reads.
Files == { [name |-> <<DOT, CH_c>>, lines |-> << <<CH_1, TAB, LF>> >>] }

IsPrefix(a, b) == Len(a) <= Len(b) /\ SubSeq(b, 1, Len(a)) = a

RECURSIVE CellsLoop(_, _)
CellsLoop(rows, j) ==
  IF j > Len(rows) THEN 0 ELSE Len(rows[j].chars) + CellsLoop(rows, j + 1)
Cells(e) == CellsLoop(e.row, 1)

(***************************************************************************)
(* The state                                                               *)
(*                                                                         *)
(* The program is observed where it blocks in editorReadKey.  One step     *)
(* runs from the return of editorReadKey to the next call of it: the       *)
(* handling of the key, then editorRefreshScreen of the loop (main's or    *)
(* editorPrompt's) that reads the next key.                                *)
(***************************************************************************)
VARIABLES
  E,              \* struct editorConfig E
  quit_times,     \* static of editorProcessKeypress
  last_match,     \* statics of editorFindCallback
  direction,
  saved_hl_line,
  saved_hl,
  pc,             \* "key": blocked in editorReadKey; "exit": exit(0) was called
  prompt,         \* the editorPrompt call in progress: "none", "save", "find"
  buf,            \* buf of editorPrompt
  saved,          \* saved_cx, saved_cy, saved_coloff, saved_rowoff of editorFind
  law             \* the row operation under test and its arguments (RowSpec)

vars == <<E, quit_times, last_match, direction, saved_hl_line, saved_hl,
          pc, prompt, buf, saved, law>>

findStatics == <<last_match, direction, saved_hl_line, saved_hl>>

\* No row operation is under test in the editor's own runs.
NoLaw == [op |-> "none"]

\* The locals of editorFind outside a search.
NoSaved == [cx |-> 0, cy |-> 0, coloff |-> 0, rowoff |-> 0]

\* editorRefreshScreen(): of the state, only editorScroll changes anything.
editorRefreshScreen(e) == editorScroll(e)

\* initEditor() on a terminal of ScreenRows + 2 rows.
initEditor ==
  [ cx |-> 0, cy |-> 0, rx |-> 0, rowoff |-> 0, coloff |-> 0,
    screenrows |-> (ScreenRows + 2) - 2, screencols |-> ScreenCols,
    row |-> << >>, dirty |-> 0, filename |-> NULL,
    statusmsg |-> MSG_EMPTY, syntax |-> NULL ]

\* main() with or without a file argument, up to the first editorReadKey.
Init ==
  /\ \/ E = editorRefreshScreen(editorSetStatusMessage(initEditor, MSG_HELP))
     \/ \E f \in Files :
          E = editorRefreshScreen(
                editorSetStatusMessage(editorOpen(initEditor, f.name, f.lines),
                                       MSG_HELP))
  /\ quit_times = CLITE_QUIT_TIMES
  /\ last_match = -1
  /\ direction = 1
  /\ saved_hl_line = 0
  /\ saved_hl = NULL
  /\ pc = "key"
  /\ prompt = "none"
  /\ buf = << >>
  /\ saved = NoSaved
  /\ law = NoLaw

(***************************************************************************)
(* Keys read by editorProcessKeypress                                      *)
(***************************************************************************)
AtKey == pc = "key" /\ prompt = "none"

\* Break as it would be without line 1338: the count is left as it is.
Break_KeepsCount(e) ==
  /\ E' = editorRefreshScreen(e)
  /\ UNCHANGED <<quit_times, findStatics, pc, prompt, buf, saved, law>>

\* The end of editorProcessKeypress after a case that breaks, and the
\* next frame of main's loop.
Break(e) ==
  /\ E' = editorRefreshScreen(e)
  /\ quit_times' = CLITE_QUIT_TIMES
  /\ UNCHANGED <<findStatics, pc, prompt, buf, saved, law>>

\* The head of editorPrompt's loop: the prompt with the input so far is
\* the status message of the frame drawn.
PromptFrame(e, fmt, b) == editorRefreshScreen(editorSetStatusMessage(e, Msg(fmt, b)))

CanEdit == E.dirty < MaxDirty

KeyEnter ==
  /\ AtKey /\ CanEdit /\ numrows(E) < MaxRows
  /\ Break(editorInsertNewline(E))

\* KeyQuit as it would be with the count tested before the last press
\* (quit_times > 1): the third press in a row exits.
KeyQuit_ThreePresses ==
  /\ AtKey
  /\ IF E.dirty # 0 /\ quit_times > 1
     THEN /\ E' = editorRefreshScreen(
                    editorSetStatusMessage(E, MSG_WARNING(quit_times)))
          /\ quit_times' = quit_times - 1
          /\ pc' = pc
     ELSE /\ pc' = "exit"
          /\ UNCHANGED <<E, quit_times>>
  /\ UNCHANGED <<findStatics, prompt, buf, saved, law>>

\* KeyQuit as it would be without the test of E.dirty: a clean document
\* is guarded as well.
KeyQuit_GuardsClean ==
  /\ AtKey
  /\ IF quit_times > 0
     THEN /\ E' = editorRefreshScreen(
                    editorSetStatusMessage(E, MSG_WARNING(quit_times)))
          /\ quit_times' = quit_times - 1
          /\ pc' = pc
     ELSE /\ pc' = "exit"
          /\ UNCHANGED <<E, quit_times>>
  /\ UNCHANGED <<findStatics, prompt, buf, saved, law>>

\* case CTRL_KEY('q') of editorProcessKeypress.
QuitStep ==
  /\ AtKey
  /\ IF E.dirty # 0 /\ quit_times > 0
     THEN /\ E' = editorRefreshScreen(
                    editorSetStatusMessage(E, MSG_WARNING(quit_times)))
          /\ quit_times' = quit_times - 1
          /\ pc' = pc
     ELSE /\ pc' = "exit"
          /\ UNCHANGED <<E, quit_times>>
  /\ UNCHANGED <<findStatics, prompt, buf, saved>>

KeyQuit == QuitStep /\ UNCHANGED law

\* Ctrl-S with a filename: editorSave() runs to its end, the system calls
\* answering io.
SaveKey(io) ==
  /\ AtKey /\ E.filename # NULL
  /\ Break(editorSaveWrite(E, io))

KeySave == \E io \in IoOutcomes : SaveKey(io)

\* Ctrl-S without a filename: editorSave() enters editorPrompt.  Nothing
\* reads quit_times before editorProcessKeypress resets it after editorSave
\* has returned (line 1338): the model resets it on entering the prompt.
SaveEnter ==
  /\ AtKey /\ E.filename = NULL
  /\ E' = PromptFrame(E, PROMPT_SAVE, << >>)
  /\ prompt' = "save"
  /\ buf' = << >>
  /\ quit_times' = CLITE_QUIT_TIMES
  /\ UNCHANGED <<findStatics, pc, saved>>

KeySaveAs == SaveEnter /\ UNCHANGED law

KeyHome ==
  /\ AtKey
  /\ Break([E EXCEPT !.cx = 0])

KeyEnd ==
  /\ AtKey
  /\ Break(IF E.cy < numrows(E)
           THEN [E EXCEPT !.cx = Len(E.row[E.cy + 1].chars)] ELSE E)

\* Ctrl-F: editorFind() saves the cursor and enters editorPrompt (quit_times
\* as for Ctrl-S).
FindEnter ==
  /\ AtKey
  /\ saved' = [cx |-> E.cx, cy |-> E.cy, coloff |-> E.coloff,
               rowoff |-> E.rowoff]
  /\ E' = PromptFrame(E, PROMPT_FIND, << >>)
  /\ prompt' = "find"
  /\ buf' = << >>
  /\ quit_times' = CLITE_QUIT_TIMES
  /\ UNCHANGED <<findStatics, pc>>

KeyFind == FindEnter /\ UNCHANGED law

\* case BACKSPACE, CTRL_KEY('h'), DEL_KEY of editorProcessKeypress.
\* The case of BACKSPACE, Ctrl-H and DEL_KEY without the move to the right.
DeleteKey_NoMove(e, c) == editorDelChar(e)

DeleteKey(e, c) ==
  editorDelChar(IF c = DEL_KEY THEN editorMoveCursor(e, ARROW_RIGHT) ELSE e)

KeyBackspace ==
  /\ AtKey /\ CanEdit
  /\ \E c \in {BACKSPACE, CTRL_KEY(CH_h)} : Break(DeleteKey(E, c))

KeyDelete ==
  /\ AtKey /\ CanEdit
  /\ Break(DeleteKey(E, DEL_KEY))

KeyPage ==
  /\ AtKey
  /\ \E c \in {PAGE_UP, PAGE_DOWN} : Break(PageMove(E, c))

KeyArrow ==
  /\ AtKey
  /\ \E c \in {ARROW_UP, ARROW_DOWN, ARROW_LEFT, ARROW_RIGHT} :
       Break(editorMoveCursor(E, c))

\* Ctrl-L and Escape are ignored.
KeyIgnored ==
  /\ AtKey
  /\ \E c \in {CTRL_KEY(CH_l), ESC} : Break(E)

\* default: editorInsertChar(c).
KeyChar ==
  /\ AtKey /\ CanEdit /\ Cells(E) < MaxCells
  /\ E.cy = numrows(E) => numrows(E) < MaxRows
  /\ \E c \in InsChars : Break(editorInsertChar(E, c))

(***************************************************************************)
(* Keys read by editorPrompt                                               *)
(***************************************************************************)
SaveKeys ==
  {DOT, CH_c, BACKSPACE, ESC, CR}
FindKeys ==
  {CH_1, SPACE} \cup {BACKSPACE, CTRL_KEY(CH_h), DEL_KEY, ESC, CR, ARROW_UP,
                  ARROW_DOWN, ARROW_LEFT, ARROW_RIGHT, CTRL_KEY(CH_l)}

\* The rest of editorSave() once editorPrompt has returned name.
SaveAfterPrompt(e, name, io) ==
  IF name = NULL THEN editorSetStatusMessage(e, MSG_ABORTED)
  ELSE editorSaveWrite(
         editorSelectSyntaxHighlight([e EXCEPT !.filename = name]), io)

\* Key c ends the "Save as" prompt (Escape, or Enter on a name) and
\* editorSave() runs to its end, the system calls answering io.
SaveReturnStep(c, io) ==
  /\ pc = "key" /\ prompt = "save"
  /\ PromptReturns(buf, c)
  /\ E' = editorRefreshScreen(
            SaveAfterPrompt(editorSetStatusMessage(E, MSG_EMPTY),
                            PromptResult(buf, c), io))
  /\ quit_times' = CLITE_QUIT_TIMES
  /\ prompt' = "none"
  /\ buf' = << >>
  /\ UNCHANGED <<findStatics, pc, saved>>

SavePromptReturn(c, io) == SaveReturnStep(c, io) /\ UNCHANGED law

\* Key c is taken by the "Save as" prompt (no callback), which goes on.
SaveEditStep(c) ==
  /\ pc = "key" /\ prompt = "save"
  /\ ~PromptReturns(buf, c)
  /\ PromptBuf(buf, c) # buf =>
       \E n \in SaveNames : IsPrefix(PromptBuf(buf, c), n)
  /\ E' = PromptFrame(E, PROMPT_SAVE, PromptBuf(buf, c))
  /\ buf' = PromptBuf(buf, c)
  /\ UNCHANGED <<quit_times, prompt, findStatics, pc, saved>>

SavePromptEdit(c) == SaveEditStep(c) /\ UNCHANGED law

SavePromptKey ==
  \E c \in SaveKeys :
    \/ \E io \in IoOutcomes : SavePromptReturn(c, io)
    \/ SavePromptEdit(c)

\* The statics of editorFindCallback take the values of st.
SetFind(st) ==
  /\ last_match' = st.last_match
  /\ direction' = st.direction
  /\ saved_hl_line' = st.saved_hl_line
  /\ saved_hl' = st.saved_hl

\* The rest of editorFind as it would be without its else branch.
FindAfterPrompt_NoRestore(e, query) == e

\* The rest of editorFind() once editorPrompt has returned query.
FindAfterPrompt(e, query) ==
  IF query # NULL THEN e
  ELSE [e EXCEPT !.cx = saved.cx, !.cy = saved.cy,
                 !.coloff = saved.coloff, !.rowoff = saved.rowoff]

\* Key c of the "Search" prompt, with editorFindCallback.
FindPromptStep(c) ==
  /\ pc = "key" /\ prompt = "find"
  /\ c \in FindKeys
  /\   /\ PromptBuf(buf, c) # buf =>
            \E q \in FindQueries : IsPrefix(PromptBuf(buf, c), q)
       /\ IF PromptReturns(buf, c)
          THEN LET st == editorFindCallback(
                           FindState(editorSetStatusMessage(E, MSG_EMPTY),
                                     last_match, direction, saved_hl_line,
                                     saved_hl),
                           buf, c)
               IN  /\ E' = editorRefreshScreen(
                             FindAfterPrompt(st.e, PromptResult(buf, c)))
                   /\ SetFind(st)
                   /\ quit_times' = CLITE_QUIT_TIMES
                   /\ prompt' = "none"
                   /\ buf' = << >>
                   /\ saved' = NoSaved
          ELSE LET st == editorFindCallback(
                           FindState(E, last_match, direction, saved_hl_line,
                                     saved_hl),
                           PromptBuf(buf, c), c)
               IN  /\ E' = PromptFrame(st.e, PROMPT_FIND, PromptBuf(buf, c))
                   /\ SetFind(st)
                   /\ buf' = PromptBuf(buf, c)
                   /\ UNCHANGED <<quit_times, prompt, saved>>
  /\ UNCHANGED pc

FindPromptKey == \E c \in FindKeys : FindPromptStep(c) /\ UNCHANGED law

Next ==
  \/ KeyEnter
  \/ KeyQuit
  \/ KeySave
  \/ KeySaveAs
  \/ KeyHome
  \/ KeyEnd
  \/ KeyFind
  \/ KeyBackspace
  \/ KeyDelete
  \/ KeyPage
  \/ KeyArrow
  \/ KeyIgnored
  \/ KeyChar
  \/ SavePromptKey
  \/ FindPromptKey

Spec == Init /\ [][Next]_vars

(***************************************************************************)
(* RowSpec: the row and editor operations on their own.  A document is     *)
(* opened, the cursor is put on any column of any of its rows, and one     *)
(* operation (or one operation and its inverse) is applied there.          *)
(***************************************************************************)
\* Rows of a one-row document have up to LawRowLen characters; a longer
\* document has up to LawDocRows rows of up to LawDocLen characters.
LawRowLen == 4
LawDocRows == 2
LawDocLen == 2

\* The character sequences of length up to n over InsChars.
RECURSIVE Strings(_)
Strings(n) ==
  IF n = 0 THEN { << >> }
  ELSE Strings(n - 1) \cup
       { Append(s, c) : s \in Strings(n - 1), c \in InsChars }

RECURSIVE DocsOf(_, _)
DocsOf(n, rows) ==
  IF n = 0 THEN { << >> }
  ELSE DocsOf(n - 1, rows) \cup
       { Append(d, r) : d \in DocsOf(n - 1, rows), r \in rows }

LawDocs ==
  { <<r>> : r \in Strings(LawRowLen) } \cup
  (DocsOf(LawDocRows, Strings(LawDocLen)) \ { << >> })

\* The lines getline reads from a file holding document d.
FileLines(d) == [k \in 1..Len(d) |-> Append(d[k], LF)]

\* main() on a file holding d, then cursor keys up to row cy, column cx.
RowInit ==
  /\ \E d \in LawDocs : \E cy \in 0..(Len(d) - 1) : \E cx \in 0..Len(d[cy + 1]) :
       E = editorRefreshScreen(
             [editorSetStatusMessage(
                editorOpen(initEditor, <<DOT, CH_c>>, FileLines(d)), MSG_HELP)
              EXCEPT !.cy = cy, !.cx = cx])
  /\ law = [op |-> "start"]
  /\ quit_times = CLITE_QUIT_TIMES
  /\ last_match = -1
  /\ direction = 1
  /\ saved_hl_line = 0
  /\ saved_hl = NULL
  /\ pc = "key"
  /\ prompt = "none"
  /\ buf = << >>
  /\ saved = NoSaved

RowRest == <<quit_times, findStatics, pc, prompt, buf, saved>>

\* editorInsertNewline() at the cursor.
RowSplit ==
  /\ law.op = "start"
  /\ E' = editorInsertNewline(E)
  /\ law' = [op |-> "split", e0 |-> E]
  /\ UNCHANGED RowRest

\* editorDelChar() right after editorInsertNewline().
RowJoin ==
  /\ law.op = "split"
  /\ E' = editorDelChar(E)
  /\ law' = [law EXCEPT !.op = "joined"]
  /\ UNCHANGED RowRest

\* editorRowInsertChar(row, at, c) on the cursor's row, at the cursor's column.
RowInsert ==
  /\ law.op = "start"
  /\ \E c \in InsChars :
       /\ E' = editorRowInsertChar(E, E.cy, E.cx, c)
       /\ law' = [op |-> "inserted", e0 |-> E, c |-> c]
  /\ UNCHANGED RowRest

\* editorRowDelChar(row, at) at the column of the insertion.
RowDelete ==
  /\ law.op = "inserted"
  /\ E' = editorRowDelChar(E, E.cy, E.cx)
  /\ law' = [law EXCEPT !.op = "deleted"]
  /\ UNCHANGED RowRest

\* rx = editorRowCxToRx(row, cx) for the cursor's row and column.
RowCxToRx ==
  /\ law.op = "start"
  /\ law' = [op |-> "rx", rx |-> editorRowCxToRx(E.row[E.cy + 1], E.cx)]
  /\ UNCHANGED <<E, RowRest>>

\* editorRowRxToCx(row, rx) of that rx.
RowRxToCx ==
  /\ law.op = "rx"
  /\ law' = [op |-> "cx", rx |-> law.rx,
             cx |-> editorRowRxToCx(E.row[E.cy + 1], law.rx)]
  /\ UNCHANGED <<E, RowRest>>

\* editorRowRxToCx(row, rx) for the cursor's row and any render column up to
\* one past the end of its render.
RowRenderCol ==
  /\ law.op = "start"
  /\ \E rx \in 0..(Len(E.row[E.cy + 1].render) + 1) :
       law' = [op |-> "col", rx |-> rx,
               cx |-> editorRowRxToCx(E.row[E.cy + 1], rx)]
  /\ UNCHANGED <<E, RowRest>>

\* editorUpdateRow(row) on the cursor's row.
RowUpdate ==
  /\ law.op = "start"
  /\ E' = [E EXCEPT !.row[E.cy + 1] = editorUpdateRow(E.syntax, @)]
  /\ law' = [op |-> "updated", e0 |-> E]
  /\ UNCHANGED RowRest

RowNext ==
  \/ RowSplit
  \/ RowJoin
  \/ RowInsert
  \/ RowDelete
  \/ RowCxToRx
  \/ RowRxToCx
  \/ RowRenderCol
  \/ RowUpdate

RowSpec == RowInit /\ [][RowNext]_vars

(***************************************************************************)
(* FindSpec: search sessions on their own.  A document is opened, the      *)
(* cursor is put on any of its rows, and Ctrl-F is pressed; law records    *)
(* what the session has done so far.                                       *)
(***************************************************************************)
\* Documents have up to FindRows rows, each one of FindRowSet.
FindRows == 3

FindRowSet == { <<SPACE>>, <<TAB, CH_1>> }

\* The text rows of the window of a search session.
FindScreenRows == 2

FindDocs == DocsOf(FindRows, FindRowSet)

\* The rows the scan loop of editorFindCallback passes to strstr, in order,
\* from iteration i.
RECURSIVE ScanVisits(_, _, _, _, _)
ScanVisits(e, query, dir, i, current) ==
  IF i >= numrows(e) THEN << >>
  ELSE LET c1 == current + dir
           c2 == IF c1 = -1 THEN numrows(e) - 1
                 ELSE IF c1 = numrows(e) THEN 0 ELSE c1
       IN  IF strstr(e.row[c2 + 1].render, query) # -1 THEN <<c2>>
           ELSE <<c2>> \o ScanVisits(e, query, dir, i + 1, c2)

\* The rows editorFindCallback(query, key) visits when called with the
\* statics at lm and dir: none on Enter and Escape.
CallbackVisits(e, lm, dir, query, key) ==
  IF key = CR \/ key = ESC THEN << >>
  ELSE LET arrow == key \in {ARROW_RIGHT, ARROW_DOWN, ARROW_LEFT, ARROW_UP}
           lm1 == IF arrow THEN lm ELSE -1
           d1 == IF key = ARROW_LEFT \/ key = ARROW_UP THEN -1
                 ELSE IF arrow THEN dir ELSE 1
           d2 == IF key = ARROW_RIGHT \/ key = ARROW_DOWN THEN 1 ELSE d1
       IN  ScanVisits(e, query, IF lm1 = -1 THEN 1 ELSE d2, 0, lm1)

Last(s) == s[Len(s)]

\* Whether the last row of a scan's visits holds the query.
VisitsMatch(e, query, visits) ==
  visits # << >> /\ strstr(e.row[Last(visits) + 1].render, query) # -1

\* Where the query begins in row r: the row, and the column of chars
\* whose render column is the first of the match.
MatchAt(e, query, r) ==
  [cy |-> r,
   cx |-> editorRowRxToCx(e.row[r + 1], strstr(e.row[r + 1].render, query))]

\* main() on a file holding d in a window of FindScreenRows text rows, then
\* cursor keys to row cy.
FindInit ==
  /\ \E d \in FindDocs : \E cy \in 0..Len(d) :
       \E cx \in (IF cy < Len(d) THEN {0, Len(d[cy + 1])} ELSE {0}) :
         E = editorRefreshScreen(
               [editorSetStatusMessage(
                  editorOpen(initEditor, <<DOT, CH_c>>, FileLines(d)), MSG_HELP)
                EXCEPT !.cy = cy, !.cx = cx, !.screenrows = FindScreenRows])
  /\ law = [op |-> "idle"]
  /\ quit_times = CLITE_QUIT_TIMES
  /\ last_match = -1
  /\ direction = 1
  /\ saved_hl_line = 0
  /\ saved_hl = NULL
  /\ pc = "key"
  /\ prompt = "none"
  /\ buf = << >>
  /\ saved = NoSaved

\* Ctrl-F: a session begins.  e0 is the editor as it was, at the cursor of
\* the last match found (the cursor of e0 while there is none).
FindBegin ==
  /\ FindEnter
  /\ law' = [op |-> "search", e0 |-> E, key |-> CTRL_KEY(CH_f),
             query |-> << >>, visits |-> << >>, matched |-> FALSE,
             at |-> [cy |-> E.cy, cx |-> E.cx], from |-> last_match]

\* A key of the session: the rows its scan visits, whether it matched, and
\* last_match as it was before the key (from).
FindKey ==
  \E c \in FindKeys :
    /\ FindPromptStep(c)
    /\ LET query == PromptBuf(buf, c)
           visits == CallbackVisits(E, last_match, direction, query, c)
           matched == VisitsMatch(E, query, visits)
       IN  law' = [op |-> IF prompt' = "none" THEN "ended" ELSE "search",
                   e0 |-> law.e0, key |-> c, query |-> query,
                   visits |-> visits, matched |-> matched,
                   at |-> IF matched THEN MatchAt(E, query, Last(visits))
                          ELSE law.at,
                   from |-> last_match]

FindNext ==
  \/ FindBegin
  \/ FindKey

FindSpec == FindInit /\ [][FindNext]_vars

(***************************************************************************)
(* ScrollSpec: editorScroll on its own.  The window is where the frame     *)
(* before left it for a cursor at (cy0, cx0), or where a search match has  *)
(* put it (rowoff = numrows); the cursor is anywhere in the document.      *)
(***************************************************************************)
\* The cursor positions of a document d: any column of any row, and
\* column 0 below the last row.
CursorsOf(d) ==
  UNION { { <<cy, cx>> :
              cx \in 0..(IF cy < Len(d) THEN Len(d[cy + 1]) ELSE 0) } :
          cy \in 0..Len(d) }

ScrollInit ==
  /\ \E d \in FindDocs : \E p0 \in CursorsOf(d) : \E p1 \in CursorsOf(d) :
     \E after_match \in BOOLEAN :
       LET e0 == editorRefreshScreen(
                   [editorSetStatusMessage(
                      editorOpen(initEditor, <<DOT, CH_c>>, FileLines(d)),
                      MSG_HELP)
                    EXCEPT !.cy = p0[1], !.cx = p0[2]])
       IN  E = [e0 EXCEPT !.cy = p1[1], !.cx = p1[2],
                          !.rowoff = IF after_match THEN numrows(e0) ELSE @]
  /\ law = [op |-> "frame"]
  /\ quit_times = CLITE_QUIT_TIMES
  /\ last_match = -1
  /\ direction = 1
  /\ saved_hl_line = 0
  /\ saved_hl = NULL
  /\ pc = "key"
  /\ prompt = "none"
  /\ buf = << >>
  /\ saved = NoSaved

\* editorScroll() at the head of editorRefreshScreen.
Scroll ==
  /\ law.op = "frame"
  /\ E' = editorScroll(E)
  /\ law' = [op |-> "scrolled", e0 |-> E]
  /\ UNCHANGED RowRest

ScrollNext == Scroll

ScrollSpec == ScrollInit /\ [][ScrollNext]_vars

(***************************************************************************)
(* KeySpec: the key decoder on its own.  The terminal's input is the       *)
(* sequence of the outcomes of the read() calls to come: a byte, or        *)
(* nothing within VTIME (0 is returned, or -1 with EAGAIN), or a failure   *)
(* (-1 with another errno).  Past the end of the sequence every read       *)
(* times out.  Each read() takes the head of the sequence.                 *)
(***************************************************************************)
ReadByte(b) == [nread |-> 1, c |-> b, errno |-> "none"]
READ_TIMEOUT == [nread |-> 0, c |-> NUL, errno |-> "none"]
READ_EAGAIN == [nread |-> -1, c |-> NUL, errno |-> "EAGAIN"]
READ_EIO == [nread |-> -1, c |-> NUL, errno |-> "EIO"]

\* read(STDIN_FILENO, &c, 1) on the input q, and the input it leaves.
read(q) == IF q = << >> THEN READ_TIMEOUT ELSE Head(q)
AfterRead(q) == IF q = << >> THEN << >> ELSE Tail(q)

\* editorReadKey returning k with q left in the terminal.
KeyOf(k, q) == [status |-> "key", key |-> k, rest |-> q]

\* The switch on seq[1] after ESC [ digit ~.
TildeKey_SevenIsEnd(d) ==
  CASE d = CH_0 + 1 -> HOME_KEY
    [] d = CH_0 + 3 -> DEL_KEY
    [] d = CH_0 + 4 -> END_KEY
    [] d = CH_0 + 5 -> PAGE_UP
    [] d = CH_0 + 6 -> PAGE_DOWN
    [] d = CH_0 + 7 -> END_KEY
    [] d = CH_0 + 8 -> END_KEY
    [] OTHER -> ESC

TildeKey(d) ==
  CASE d = CH_0 + 1 -> HOME_KEY
    [] d = CH_0 + 3 -> DEL_KEY
    [] d = CH_0 + 4 -> END_KEY
    [] d = CH_0 + 5 -> PAGE_UP
    [] d = CH_0 + 6 -> PAGE_DOWN
    [] d = CH_0 + 7 -> HOME_KEY
    [] d = CH_0 + 8 -> END_KEY
    [] OTHER -> ESC

\* The switch on seq[1] after ESC [.
BracketKey(l) ==
  CASE l = CH_A -> ARROW_UP
    [] l = CH_B -> ARROW_DOWN
    [] l = CH_C -> ARROW_RIGHT
    [] l = CH_D -> ARROW_LEFT
    [] l = CH_H -> HOME_KEY
    [] l = CH_F -> END_KEY
    [] OTHER -> ESC

\* The switch on seq[1] after ESC O.
OKey(l) ==
  CASE l = CH_H -> HOME_KEY
    [] l = CH_F -> END_KEY
    [] OTHER -> ESC

\* The third read of a digit form, seq[0] = '[' and seq[1] = d read.
DigitForm_PutsBack(d, q) ==
  LET r2 == read(q)
  IN  IF r2.nread # 1 THEN KeyOf(ESC, AfterRead(q))
      ELSE IF r2.c = TILDE THEN KeyOf(TildeKey(d), AfterRead(q))
      ELSE KeyOf(ESC, q)

DigitForm(d, q) ==
  LET r2 == read(q)
  IN  IF r2.nread # 1 THEN KeyOf(ESC, AfterRead(q))
      ELSE IF r2.c = TILDE THEN KeyOf(TildeKey(d), AfterRead(q))
      ELSE KeyOf(ESC, AfterRead(q))

\* editorReadKey once c = '\x1b' was read, q left in the terminal.
EscapeSequence(q) ==
  LET r0 == read(q)
      q1 == AfterRead(q)
      r1 == read(q1)
      q2 == AfterRead(q1)
  IN  IF r0.nread # 1 THEN KeyOf(ESC, q1)
      ELSE IF r1.nread # 1 THEN KeyOf(ESC, q2)
      ELSE IF r0.c = LBRACKET
        THEN IF r1.c >= CH_0 /\ r1.c <= CH_9
               THEN DigitForm(r1.c, q2)
               ELSE KeyOf(BracketKey(r1.c), q2)
      ELSE IF r0.c = CH_O THEN KeyOf(OKey(r1.c), q2)
      ELSE KeyOf(ESC, q2)

\* The while loop of editorReadKey with the input q, then the decoding of
\* the byte read.  With no byte and no failure to come the loop never ends.
RECURSIVE ReadLoop_RetriesFailure(_)
ReadLoop_RetriesFailure(q) ==
  IF q = << >> THEN [status |-> "blocked", key |-> NUL, rest |-> q]
  ELSE LET r == Head(q)
       IN  IF r.nread = 1
             THEN IF r.c = ESC THEN EscapeSequence(Tail(q))
                  ELSE KeyOf(r.c, Tail(q))
           ELSE ReadLoop_RetriesFailure(Tail(q))

RECURSIVE ReadLoop(_)
ReadLoop(q) ==
  IF q = << >> THEN [status |-> "blocked", key |-> NUL, rest |-> q]
  ELSE LET r == Head(q)
       IN  IF r.nread = 1
             THEN IF r.c = ESC THEN EscapeSequence(Tail(q))
                  ELSE KeyOf(r.c, Tail(q))
           ELSE IF r.nread = -1 /\ r.errno # "EAGAIN"
             THEN [status |-> "die", key |-> NUL, rest |-> Tail(q)]
           ELSE ReadLoop(Tail(q))

editorReadKey(q) == ReadLoop(q)

\* The longest input drawn.
KeyReads == 5

\* What a read() can yield besides a byte.
NoByte == {READ_TIMEOUT, READ_EAGAIN, READ_EIO}

\* The bytes drawn for the reads of one key: ESC or a plain byte, then the
\* introducers, then every byte the switches name and some they do not.
FirstBytes == {ESC, CH_x}
SecondBytes == {ESC, LBRACKET, CH_O, CH_x}
ThirdBytes ==
  {CH_A, CH_B, CH_C, CH_D, CH_F, CH_H, CH_Z, CH_y, TILDE} \cup (CH_0..CH_9)
LaterBytes == {TILDE, CH_x, CH_A, CH_0 + 5}

ReadsAt(i) ==
  CASE i = 1 -> NoByte \cup { ReadByte(b) : b \in FirstBytes }
    [] i = 2 -> NoByte \cup { ReadByte(b) : b \in SecondBytes }
    [] i = 3 -> NoByte \cup { ReadByte(b) : b \in ThirdBytes }
    [] i = 4 -> NoByte \cup { ReadByte(b) : b \in LaterBytes }
    [] OTHER -> {READ_TIMEOUT, ReadByte(CH_x)}

RECURSIVE InputsOfLen(_)
InputsOfLen(n) ==
  IF n = 0 THEN { << >> }
  ELSE { Append(q, r) : q \in InputsOfLen(n - 1), r \in ReadsAt(n) }

KeyInputs == UNION { InputsOfLen(n) : n \in 1..KeyReads }

KeyInit ==
  /\ E = editorRefreshScreen(editorSetStatusMessage(initEditor, MSG_HELP))
  /\ \E q \in KeyInputs :
       law = [op |-> "input", status |-> "key", key |-> NUL, q0 |-> q,
              rest |-> q]
  /\ quit_times = CLITE_QUIT_TIMES
  /\ last_match = -1
  /\ direction = 1
  /\ saved_hl_line = 0
  /\ saved_hl = NULL
  /\ pc = "key"
  /\ prompt = "none"
  /\ buf = << >>
  /\ saved = NoSaved

\* One call of editorReadKey on what the calls before left.  After die()
\* nothing runs, and a call that never returns is not followed by another.
ReadKey ==
  /\ law.status = "key"
  /\ LET k == editorReadKey(law.rest)
     IN  law' = [op |-> "read", status |-> k.status, key |-> k.key,
                 q0 |-> law.rest, rest |-> k.rest]
  /\ UNCHANGED <<E, RowRest>>

KeyNext == ReadKey

KeySpec == KeyInit /\ [][KeyNext]_vars

(***************************************************************************)
(* SyntaxSpec: one row inserted into an empty document that has the        *)
(* profile of HLDB selected, which renders and highlights it.              *)
(***************************************************************************)
\* The longest row drawn, and the characters rows are drawn from.
HlLen == 5
HlChars == {DQUOTE, SQUOTE, BACKSLASH, SLASH, SPACE, CH_1, CH_x}

\* "int x = 1;" and "// done"
ROW_INT_X == <<105, 110, 116, 32, 120, 32, 61, 32, 49, 59>>
ROW_DONE == <<47, 47, 32, 100, 111, 110, 101>>

\* Rows of up to HlLen characters, and those behind a string that holds
\* the comment token.
HlRows ==
  LET short == UNION { [1..n -> HlChars] : n \in 0..HlLen }
  IN  {ROW_INT_X, ROW_DONE} \cup short
        \cup { <<DQUOTE, SLASH, SLASH, DQUOTE>> \o s :
                 s \in { t \in short : Len(t) <= HlLen - 3 } }

SyntaxInit ==
  /\ E = editorRefreshScreen(
           editorSetStatusMessage(editorOpen(initEditor, <<DOT, CH_c>>, << >>),
                                  MSG_HELP))
  /\ \E s \in HlRows : law = [op |-> "row", s |-> s]
  /\ quit_times = CLITE_QUIT_TIMES
  /\ last_match = -1
  /\ direction = 1
  /\ saved_hl_line = 0
  /\ saved_hl = NULL
  /\ pc = "key"
  /\ prompt = "none"
  /\ buf = << >>
  /\ saved = NoSaved

\* editorInsertRow(0, s, len), which ends in editorUpdateRow.
SyntaxInsertRow ==
  /\ law.op = "row"
  /\ E' = editorInsertRow(E, 0, law.s)
  /\ law' = [op |-> "inserted", s |-> law.s]
  /\ UNCHANGED RowRest

SyntaxNext == SyntaxInsertRow

SyntaxSpec == SyntaxInit /\ [][SyntaxNext]_vars

(***************************************************************************)
(* DrawSpec: editorDrawRows on terminals of several sizes.  A screen row   *)
(* is the record of what is appended for it: lead ("~" or nothing), the    *)
(* number of spaces behind it, and the text (the welcome message, a part   *)
(* of a file row, or nothing) with its length.  Colour sequences are left  *)
(* out.                                                                    *)
(***************************************************************************)
\* strlen("CLiTE editor -- version " CLITE_VERSION)
WELCOME_LEN == 29

\* The largest terminal drawn on.
TermRows == 24
TermCols == 80

\* One pass of the for loop of editorDrawRows, for screen row y; with
\* any_doc the welcome message does not depend on the document being empty.
DrawRow(e, y, any_doc) ==
  LET filerow == y + e.rowoff
  IN  IF filerow >= numrows(e)
        THEN IF (any_doc \/ numrows(e) = 0) /\ y = e.screenrows \div 3
               THEN LET welcomelen == IF WELCOME_LEN > e.screencols
                                        THEN e.screencols ELSE WELCOME_LEN
                        padding == (e.screencols - welcomelen) \div 2
                    IN  [ lead |-> IF padding # 0 THEN "~" ELSE "",
                          spaces |-> IF padding # 0 THEN padding - 1 ELSE 0,
                          text |-> "welcome", len |-> welcomelen ]
               ELSE [lead |-> "~", spaces |-> 0, text |-> "", len |-> 0]
        ELSE LET rsize == Len(e.row[filerow + 1].render)
                 len0 == rsize - e.coloff
                 len1 == IF len0 < 0 THEN 0 ELSE len0
                 len == IF len1 > e.screencols THEN e.screencols ELSE len1
             IN  [lead |-> "", spaces |-> 0, text |-> "row", len |-> len]

editorDrawRows_WelcomeAlways(e) ==
  [ y1 \in 1..e.screenrows |-> DrawRow(e, y1 - 1, TRUE) ]

\* editorDrawRows(ab): what it appends for the screen rows 0..screenrows-1.
editorDrawRows(e) ==
  [ y1 \in 1..e.screenrows |-> DrawRow(e, y1 - 1, FALSE) ]

\* initEditor() where getWindowSize reports ws_row rows and ws_col columns.
initEditorOn(ws_row, ws_col) ==
  [initEditor EXCEPT !.screenrows = ws_row - 2, !.screencols = ws_col]

\* main() up to the first frame, without a file or with one of FindDocs,
\* then the cursor put on any row.
DrawInit ==
  /\ \E ws_row \in 3..TermRows : \E ws_col \in {2, WELCOME_LEN} \cup 80..TermCols :
     \E d \in {<< >>} \cup FindDocs : \E cy \in 0..Len(d) :
       E = editorRefreshScreen(
             [editorSetStatusMessage(
                IF d = << >> THEN initEditorOn(ws_row, ws_col)
                ELSE editorOpen(initEditorOn(ws_row, ws_col), <<DOT, CH_c>>,
                                FileLines(d)),
                MSG_HELP)
              EXCEPT !.cy = cy])
  /\ law = [op |-> "frame"]
  /\ quit_times = CLITE_QUIT_TIMES
  /\ last_match = -1
  /\ direction = 1
  /\ saved_hl_line = 0
  /\ saved_hl = NULL
  /\ pc = "key"
  /\ prompt = "none"
  /\ buf = << >>
  /\ saved = NoSaved

\* editorDrawRows() in editorRefreshScreen.
DrawRows ==
  /\ law.op = "frame"
  /\ law' = [op |-> "drawn", rows |-> editorDrawRows(E)]
  /\ UNCHANGED <<E, RowRest>>

DrawNext == DrawRows

DrawSpec == DrawInit /\ [][DrawNext]_vars

(***************************************************************************)
(* LoopSpec: the main loop and the clock.  law.at is the place of the      *)
(* process: "refresh" (editorRefreshScreen is to run), "read" (blocked in  *)
(* the read() of editorReadKey's loop), "retry" (in the body of that loop  *)
(* after a read that yielded no byte), "exit".  law.now is time(NULL),     *)
(* law.bar what the last frame wrote into the message bar, law.nread what  *)
(* the last read() returned.  What a key does is reduced to whether its    *)
(* handler sets a status message.                                          *)
(***************************************************************************)
\* The last second of the clock.
MaxTime == 7

\* editorDrawMessageBar() at the time now: the message it appends, if any.
editorDrawMessageBar(e, statusmsg_time, now) ==
  IF e.statusmsg # MSG_EMPTY /\ now - statusmsg_time < 5
    THEN e.statusmsg ELSE MSG_EMPTY

LoopInit ==
  /\ E = editorSetStatusMessage(initEditor, MSG_HELP)
  /\ law = [op |-> "loop", at |-> "refresh", now |-> 0, statusmsg_time |-> 0,
            bar |-> MSG_EMPTY, nread |-> 0]
  /\ quit_times = CLITE_QUIT_TIMES
  /\ last_match = -1
  /\ direction = 1
  /\ saved_hl_line = 0
  /\ saved_hl = NULL
  /\ pc = "key"
  /\ prompt = "none"
  /\ buf = << >>
  /\ saved = NoSaved

\* editorRefreshScreen() in main's loop, then the call of editorReadKey.
LoopRefresh ==
  /\ law.op = "loop" /\ law.at = "refresh"
  /\ E' = editorRefreshScreen(E)
  /\ law' = [law EXCEPT
               !.bar = editorDrawMessageBar(E, law.statusmsg_time, law.now),
               !.at = "read"]
  /\ UNCHANGED RowRest

\* read() returns 1: editorReadKey returns, editorProcessKeypress handles
\* the key, setting a status message or not, and main's loop goes round.
LoopReadByte ==
  /\ law.op = "loop" /\ law.at = "read"
  /\ \/ /\ \E m \in {MSG_ABORTED, MSG_CANT_SAVE} :
             E' = editorSetStatusMessage(E, m)
        /\ law' = [law EXCEPT !.at = "refresh", !.nread = 1,
                              !.statusmsg_time = law.now]
     \/ /\ E' = E
        /\ law' = [law EXCEPT !.at = "refresh", !.nread = 1]
  /\ UNCHANGED RowRest

\* A read() without a byte that hands the control back to main's loop.
LoopReadTimeout_Returns ==
  /\ law.op = "loop" /\ law.at = "read"
  /\ \E n \in {0, -1} : law' = [law EXCEPT !.at = "refresh", !.nread = n]
  /\ UNCHANGED <<E, RowRest>>

\* read() returns after VTIME without a byte, with 0 or with -1 and EAGAIN:
\* the while loop of editorReadKey goes on.
LoopReadTimeout ==
  /\ law.op = "loop" /\ law.at = "read"
  /\ \E n \in {0, -1} : law' = [law EXCEPT !.at = "retry", !.nread = n]
  /\ UNCHANGED <<E, RowRest>>

\* The body of the while loop after such a read: no die(), read() again.
LoopRetry ==
  /\ law.op = "loop" /\ law.at = "retry"
  /\ law' = [law EXCEPT !.at = "read"]
  /\ UNCHANGED <<E, RowRest>>

\* read() returns -1 with another errno: die("read").
LoopReadFails ==
  /\ law.op = "loop" /\ law.at = "read"
  /\ law' = [law EXCEPT !.at = "exit", !.nread = -1]
  /\ UNCHANGED <<E, RowRest>>

\* A second passes.
Tick ==
  /\ law.op = "loop" /\ law.at # "exit" /\ law.now < MaxTime
  /\ law' = [law EXCEPT !.now = @ + 1]
  /\ UNCHANGED <<E, RowRest>>

LoopNext ==
  \/ LoopRefresh
  \/ LoopReadByte
  \/ LoopReadTimeout
  \/ LoopRetry
  \/ LoopReadFails
  \/ Tick

\* The process runs on and time passes; read() returns within VTIME when no
\* byte arrives.  Nothing makes a key arrive.
LoopSpec ==
  /\ LoopInit /\ [][LoopNext]_vars
  /\ WF_vars(LoopRefresh) /\ WF_vars(LoopReadTimeout) /\ WF_vars(LoopRetry)
  /\ WF_vars(Tick)

(***************************************************************************)
(* MoveSpec: arrow keys on the documents of FindDocs, from any cursor      *)
(* position.                                                               *)
(***************************************************************************)
MoveInit ==
  /\ \E d \in FindDocs : \E p \in CursorsOf(d) :
       E = editorRefreshScreen(
             [editorSetStatusMessage(
                editorOpen(initEditor, <<DOT, CH_c>>, FileLines(d)),
                MSG_HELP)
              EXCEPT !.cy = p[1], !.cx = p[2]])
  /\ law = [op |-> "start"]
  /\ quit_times = CLITE_QUIT_TIMES
  /\ last_match = -1
  /\ direction = 1
  /\ saved_hl_line = 0
  /\ saved_hl = NULL
  /\ pc = "key"
  /\ prompt = "none"
  /\ buf = << >>
  /\ saved = NoSaved

\* An arrow key in editorProcessKeypress, then the next frame.
MoveArrow ==
  /\ \E key \in {ARROW_LEFT, ARROW_RIGHT, ARROW_UP, ARROW_DOWN} :
       /\ E' = editorRefreshScreen(editorMoveCursor(E, key))
       /\ law' = [op |-> "moved", key |-> key, e0 |-> E]
  /\ UNCHANGED RowRest

MoveNext == MoveArrow

MoveSpec == MoveInit /\ [][MoveNext]_vars

(***************************************************************************)
(* EditSpec: Delete, Backspace and Enter on the documents of FindDocs and  *)
(* on the empty document, from any cursor position, up to EditKeys keys in *)
(* a row.  law.e0 is the editor before the last key.                       *)
(***************************************************************************)
EditKeys == 2

EditInit ==
  /\ \E d \in {<< >>} \cup FindDocs : \E p \in CursorsOf(d) :
       E = editorRefreshScreen(
             [editorSetStatusMessage(
                IF d = << >> THEN initEditor
                ELSE editorOpen(initEditor, <<DOT, CH_c>>, FileLines(d)),
                MSG_HELP)
              EXCEPT !.cy = p[1], !.cx = p[2]])
  /\ law = [op |-> "start", n |-> 0]
  /\ quit_times = CLITE_QUIT_TIMES
  /\ last_match = -1
  /\ direction = 1
  /\ saved_hl_line = 0
  /\ saved_hl = NULL
  /\ pc = "key"
  /\ prompt = "none"
  /\ buf = << >>
  /\ saved = NoSaved

\* The key c handled by editorProcessKeypress leaves e, then the next frame.
EditKey(c, e) ==
  /\ E' = editorRefreshScreen(e)
  /\ law' = [op |-> "key", n |-> law.n + 1, key |-> c, e0 |-> E]
  /\ UNCHANGED RowRest

EditDelete ==
  /\ law.n < EditKeys
  /\ EditKey(DEL_KEY, DeleteKey(E, DEL_KEY))

EditBackspace ==
  /\ law.n < EditKeys
  /\ \E c \in {BACKSPACE, CTRL_KEY(CH_h)} : EditKey(c, DeleteKey(E, c))

EditEnter ==
  /\ law.n < EditKeys
  /\ EditKey(CR, editorInsertNewline(E))

EditNext == EditDelete \/ EditBackspace \/ EditEnter

EditSpec == EditInit /\ [][EditNext]_vars

(***************************************************************************)
(* DispatchSpec: the keys of editorProcessKeypress, each with its name.    *)
(* The editor starts as main() leaves it, with or without a file, and      *)
(* takes up to DispKeys keys; the keys read inside a prompt are not        *)
(* counted.  law records the last key, whether it wrote the file, and the  *)
(* chars of the rows at the last load or successful save (base).           *)
(***************************************************************************)
DispKeys == 3

\* The keys that move the cursor or are ignored.
DispMoveKeys ==
  {ARROW_UP, ARROW_DOWN, ARROW_LEFT, ARROW_RIGHT, HOME_KEY, END_KEY,
   PAGE_UP, PAGE_DOWN, CTRL_KEY(CH_l), ESC}

\* The keys that edit the text.
DispEditKeys ==
  {CR, BACKSPACE, CTRL_KEY(CH_h), DEL_KEY} \cup InsChars

\* The keys read by a "Search" prompt here.
DispFindKeys == {CH_1, ARROW_DOWN, CR, ESC}

\* The cases of editorProcessKeypress that break, but Ctrl-S and Ctrl-F:
\* the editor after key c.
ProcessKey(e, c) ==
  IF c = CR THEN editorInsertNewline(e)
  ELSE IF c = HOME_KEY THEN [e EXCEPT !.cx = 0]
  ELSE IF c = END_KEY
  THEN IF e.cy < numrows(e)
       THEN [e EXCEPT !.cx = Len(e.row[e.cy + 1].chars)] ELSE e
  ELSE IF c \in {BACKSPACE, CTRL_KEY(CH_h), DEL_KEY} THEN DeleteKey(e, c)
  ELSE IF c \in {PAGE_UP, PAGE_DOWN} THEN PageMove(e, c)
  ELSE IF c \in {ARROW_UP, ARROW_DOWN, ARROW_LEFT, ARROW_RIGHT}
  THEN editorMoveCursor(e, c)
  ELSE IF c \in {CTRL_KEY(CH_l), ESC} THEN e
  ELSE editorInsertChar(e, c)

DispLaw(op, n, key, wrote, base) ==
  [op |-> op, n |-> n, key |-> key, wrote |-> wrote, base |-> base]

DispInit ==
  /\ \/ E = editorRefreshScreen(editorSetStatusMessage(initEditor, MSG_HELP))
     \/ \E f \in Files :
          E = editorRefreshScreen(
                editorSetStatusMessage(editorOpen(initEditor, f.name, f.lines),
                                       MSG_HELP))
  /\ law = DispLaw("start", 0, 0, FALSE, [k \in 1..Len(E.row) |-> E.row[k].chars])
  /\ quit_times = CLITE_QUIT_TIMES
  /\ last_match = -1
  /\ direction = 1
  /\ saved_hl_line = 0
  /\ saved_hl = NULL
  /\ pc = "key"
  /\ prompt = "none"
  /\ buf = << >>
  /\ saved = NoSaved

\* Key c of editorProcessKeypress leaves e; then line 1338 and the next
\* frame.
DispBreak(c, e) ==
  /\ E' = editorRefreshScreen(e)
  /\ quit_times' = CLITE_QUIT_TIMES
  /\ law' = DispLaw("key", law.n + 1, c, FALSE, law.base)
  /\ UNCHANGED <<findStatics, pc, prompt, buf, saved>>

DispEdit ==
  /\ AtKey /\ law.n < DispKeys
  /\ \E c \in DispEditKeys : DispBreak(c, ProcessKey(E, c))

DispMove ==
  /\ AtKey /\ law.n < DispKeys
  /\ \E c \in DispMoveKeys : DispBreak(c, ProcessKey(E, c))

DispQuit ==
  /\ law.n < DispKeys
  /\ QuitStep
  /\ law' = DispLaw("key", law.n + 1, CTRL_KEY(CH_q), FALSE, law.base)

\* Ctrl-S with a filename.
DispSave ==
  /\ AtKey /\ law.n < DispKeys /\ E.filename # NULL
  /\ \E io \in IoOutcomes :
       /\ E' = editorRefreshScreen(editorSaveWrite(E, io))
       /\ law' = DispLaw("key", law.n + 1, CTRL_KEY(CH_s), io = "ok",
                         IF io = "ok"
                         THEN [k \in 1..Len(E.row) |-> E.row[k].chars]
                         ELSE law.base)
  /\ quit_times' = CLITE_QUIT_TIMES
  /\ UNCHANGED <<findStatics, pc, prompt, buf, saved>>

\* Ctrl-S without a filename: the "Save as" prompt begins.
DispSaveAs ==
  /\ law.n < DispKeys
  /\ SaveEnter
  /\ law' = DispLaw("prompt", law.n + 1, CTRL_KEY(CH_s), FALSE, law.base)

\* A key of the "Save as" prompt.
DispSavePrompt ==
  \E c \in SaveKeys :
    \/ \E io \in IoOutcomes :
         /\ SaveReturnStep(c, io)
         /\ law' = DispLaw("returned", law.n, c, c = CR /\ io = "ok",
                           IF c = CR /\ io = "ok"
                           THEN [k \in 1..Len(E.row) |-> E.row[k].chars]
                           ELSE law.base)
    \/ /\ SaveEditStep(c)
       /\ law' = DispLaw("prompt", law.n, c, FALSE, law.base)

\* Ctrl-F: the "Search" prompt begins.
DispFind ==
  /\ law.n < DispKeys
  /\ FindEnter
  /\ law' = DispLaw("prompt", law.n + 1, CTRL_KEY(CH_f), FALSE, law.base)

\* A key of the "Search" prompt.
DispFindPrompt ==
  \E c \in DispFindKeys :
    /\ FindPromptStep(c)
    /\ law' = DispLaw(IF prompt' = "none" THEN "returned" ELSE "prompt",
                      law.n, c, FALSE, law.base)

DispatchNext ==
  \/ DispEdit
  \/ DispMove
  \/ DispQuit
  \/ DispSave
  \/ DispSaveAs
  \/ DispSavePrompt
  \/ DispFind
  \/ DispFindPrompt

DispatchSpec == DispInit /\ [][DispatchNext]_vars

(***************************************************************************)
(* Properties of the editor (Spec)                                         *)
(***************************************************************************)
\* The contents of the document: the chars of every row.
Text(e) == [k \in 1..numrows(e) |-> e.row[k].chars]

\* quit_times is CLITE_QUIT_TIMES after every key but Ctrl-Q, and a Ctrl-Q
\* that warns takes one off: with unsaved changes, quit_times = 3 - n at a
\* key means the n keys before it were Ctrl-Q, and no more than n.
QuitPressesBefore == CLITE_QUIT_TIMES - quit_times

\* C1, as stated: with unsaved changes and a confirmation count of 3, the
\* third Ctrl-Q in a row terminates the process.
C1_ThirdPressExits ==
  [][(KeyQuit /\ E.dirty > 0 /\ QuitPressesBefore = 2) => pc' = "exit"]_vars

\* C1, amended: with unsaved changes and a confirmation count of 3, the
\* first, second and third Ctrl-Q in a row each show the warning (with 3, 2
\* and 1 presses to go), take one off the count and do not terminate; the
\* fourth Ctrl-Q in a row terminates the process.
C1_FourthPressExits ==
  [][(KeyQuit /\ E.dirty > 0) =>
       /\ QuitPressesBefore \in 0..CLITE_QUIT_TIMES
       /\ QuitPressesBefore < CLITE_QUIT_TIMES =>
            /\ pc' = "key"
            /\ quit_times' = quit_times - 1
            /\ E'.statusmsg = MSG_WARNING(CLITE_QUIT_TIMES - QuitPressesBefore)
       /\ QuitPressesBefore = CLITE_QUIT_TIMES => pc' = "exit"]_vars

\* The process has exited with unsaved changes: by the fourth Ctrl-Q.
C1_ExitedDirty ==
  pc = "exit" /\ E.dirty > 0 /\ QuitPressesBefore = CLITE_QUIT_TIMES

\* C2: with dirty = 0 one Ctrl-Q terminates; with dirty > 0 a Ctrl-Q
\* terminates only when the count is used up; a Ctrl-Q that does not
\* terminate shows the warning and leaves rows, cursor and dirty as they are.
C2_QuitGuard ==
  [][KeyQuit =>
       /\ E.dirty = 0 => pc' = "exit"
       /\ (E.dirty > 0 /\ pc' = "exit") => quit_times = 0
       /\ pc' # "exit" =>
            /\ E'.statusmsg = MSG_WARNING(quit_times)
            /\ E'.row = E.row
            /\ E'.cx = E.cx /\ E'.cy = E.cy
            /\ E'.dirty = E.dirty]_vars

\* The warning of a first Ctrl-Q is on screen, the document is still there.
C2_Warned ==
  /\ pc = "key" /\ E.dirty > 0 /\ numrows(E) > 0
  /\ E.statusmsg = MSG_WARNING(CLITE_QUIT_TIMES)
  /\ quit_times = CLITE_QUIT_TIMES - 1

\* A key other than Ctrl-Q has been processed by editorProcessKeypress: a
\* step that is not a Ctrl-Q and ends outside editorPrompt.
OtherKeyProcessed == ~KeyQuit /\ prompt' = "none"

\* C3: after editorProcessKeypress has processed a key other than Ctrl-Q,
\* the count is CLITE_QUIT_TIMES again, whatever it was.
C3_CountReset ==
  [][OtherKeyProcessed => quit_times' = CLITE_QUIT_TIMES]_vars

\* Two Ctrl-Q had been pressed (their warning is still shown), then another
\* key: the count is back at CLITE_QUIT_TIMES.
C3_ResetAfterWarnings ==
  /\ pc = "key" /\ prompt = "none" /\ E.dirty > 0
  /\ E.statusmsg = MSG_WARNING(CLITE_QUIT_TIMES - 1)
  /\ quit_times = CLITE_QUIT_TIMES

\* C4: after every key processed by editorProcessKeypress (a prompt that
\* ended included), on a screen of at least one row: 0 <= cy <= numrows,
\* 0 <= cx <= the length of row cy when cy < numrows, cx = 0 when
\* cy = numrows.
C4_CursorInBounds ==
  (prompt = "none" /\ E.screenrows >= 1) =>
    /\ 0 <= E.cy /\ E.cy <= numrows(E)
    /\ E.cy < numrows(E) =>
         (0 <= E.cx /\ E.cx <= Len(E.row[E.cy + 1].chars))
    /\ E.cy = numrows(E) => E.cx = 0

\* A search prompt has ended (its empty message is still set) with the
\* cursor below the last row, where no column but 0 exists.
C4_BelowLastRow ==
  /\ prompt = "none" /\ pc = "key"
  /\ E.statusmsg = MSG_EMPTY
  /\ numrows(E) > 0 /\ Len(E.row[numrows(E)].chars) > 0
  /\ E.cy = numrows(E) /\ E.cx = 0

\* C5: in every reachable state every row's render is the tab expansion of
\* its chars, its hl is as long as its render and, outside a search, its hl
\* is what editorUpdateSyntax yields for that render under E.syntax.
C5_RowsDerived ==
  \A k \in 1..numrows(E) :
    LET row == E.row[k]
        new == editorUpdateRow(E.syntax, row)
    IN  /\ row.render = new.render
        /\ Len(row.hl) = Len(row.render)
        /\ prompt # "find" => row.hl = new.hl

\* An edited document under the C profile, outside a search, with a row
\* that holds a tab and a highlighted number.
C5_EditedHighlighted ==
  /\ prompt = "none" /\ E.syntax # NULL /\ E.dirty > 0
  /\ \E k \in 1..numrows(E) :
       /\ \E i \in 1..Len(E.row[k].chars) : E.row[k].chars[i] = TAB
       /\ \E i \in 1..Len(E.row[k].hl) : E.row[k].hl[i] = HL_NUMBER

\* The sum over the rows of (row length + 1).
RECURSIVE SumRowBytes(_)
SumRowBytes(rows) ==
  IF rows = << >> THEN 0
  ELSE Len(Head(rows).chars) + 1 + SumRowBytes(Tail(rows))

\* The render of every row.
Renders(e) == [k \in 1..numrows(e) |-> e.row[k].render]

\* editorSave() writes the file: Ctrl-S on a document with a filename, or
\* Enter on a name in the "Save as" prompt; the system calls answer io.
SaveAttempt(io) == SaveKey(io) \/ SavePromptReturn(CR, io)

CursorRow(e) == e.row[e.cy + 1]

HasTab(chars) == \E i \in 1..Len(chars) : chars[i] = TAB

\* C7: with the cursor at any column k in 0..len of any row r, Enter and
\* then Backspace leave the number of rows, the chars of every row and the
\* cursor as they were before the Enter.
C7_SplitThenJoin ==
  law.op = "joined" =>
    /\ numrows(E) = numrows(law.e0)
    /\ Text(E) = Text(law.e0)
    /\ E.cx = law.e0.cx /\ E.cy = law.e0.cy

\* The second of two rows was split inside its text and joined again.
C7_JoinedInside ==
  /\ law.op = "joined"
  /\ numrows(law.e0) = LawDocRows /\ law.e0.cy = LawDocRows - 1
  /\ 0 < law.e0.cx /\ law.e0.cx < Len(CursorRow(law.e0).chars)
  /\ HasTab(CursorRow(law.e0).chars)

\* C8: for every row, every column c in 0..len and every character ch,
\* editorRowInsertChar(row, c, ch) and then editorRowDelChar(row, c) leave
\* the chars, the length and the render of the row as they were.
C8_InsertThenDelete ==
  law.op = "deleted" =>
    /\ CursorRow(E).chars = CursorRow(law.e0).chars
    /\ Len(CursorRow(E).chars) = Len(CursorRow(law.e0).chars)
    /\ CursorRow(E).render = CursorRow(law.e0).render

\* A tab was inserted inside a row, before a tab, and deleted again.
C8_TabInsideDeleted ==
  /\ law.op = "deleted" /\ law.c = TAB
  /\ 0 < E.cx /\ E.cx < Len(CursorRow(law.e0).chars)
  /\ CursorRow(law.e0).chars[E.cx + 1] = TAB

\* C9: for every row without a tab and every column c in 0..len,
\* editorRowRxToCx(row, editorRowCxToRx(row, c)) = c.
C9_RxToCxOfCxToRx ==
  (law.op = "cx" /\ ~HasTab(CursorRow(E).chars)) => law.cx = E.cx

\* The round trip was made from the end of a row of two characters or
\* more, none a tab.
C9_RoundTripAtEnd ==
  /\ law.op = "cx" /\ ~HasTab(CursorRow(E).chars)
  /\ Len(CursorRow(E).chars) >= 2 /\ E.cx = Len(CursorRow(E).chars)

\* The render column after the first i characters of chars, by the rule:
\* a tab goes to the next multiple of CLITE_TAB_STOP, any other character
\* one column on.
RECURSIVE ColAfter(_, _)
ColAfter(chars, i) ==
  IF i = 0 THEN 0
  ELSE LET a == ColAfter(chars, i - 1)
       IN  IF chars[i] = TAB
           THEN CLITE_TAB_STOP * ((a \div CLITE_TAB_STOP) + 1)
           ELSE a + 1

Spaces(n) == [p \in 1..n |-> SPACE]

\* render is chars with each tab replaced by 1 to 8 spaces that end at a
\* multiple of 8 and every other character copied as it is.
TabsExpanded(chars, render) ==
  /\ Len(render) = ColAfter(chars, Len(chars))
  /\ \A i \in 1..Len(chars) :
       LET a == ColAfter(chars, i - 1)
           b == ColAfter(chars, i)
       IN  IF chars[i] = TAB
           THEN /\ (b - a) \in 1..CLITE_TAB_STOP
                /\ b % CLITE_TAB_STOP = 0
                /\ SubSeq(render, a + 1, b) = Spaces(b - a)
           ELSE /\ b = a + 1
                /\ render[b] = chars[i]

\* C10: the render of every row is its chars with the tabs expanded so; a
\* row of one tab renders as 8 spaces, and a tab at render column 3 renders
\* as 5 spaces.
C10_TabExpansion ==
  \A k \in 1..numrows(E) :
    LET chars == E.row[k].chars
        render == E.row[k].render
    IN  /\ TabsExpanded(chars, render)
        /\ chars = <<TAB>> => render = Spaces(8)
        /\ \A i \in 1..Len(chars) :
             (chars[i] = TAB /\ ColAfter(chars, i - 1) = 3) =>
               SubSeq(render, 4, ColAfter(chars, i)) = Spaces(5)

\* editorUpdateRow has run on a row with a tab at render column 3.
C10_TabAtColumn3 ==
  /\ law.op = "updated"
  /\ CursorRow(E).chars = <<CH_1, CH_1, CH_1, TAB>>
  /\ CursorRow(E).render = <<CH_1, CH_1, CH_1>> \o Spaces(5)

\* Render column rx of row falls on column c of its chars.
ColumnHolds(row, c, rx) ==
  /\ editorRowCxToRx(row, c) <= rx
  /\ rx < editorRowCxToRx(row, c + 1)

\* C28: for every row and every rx below the length of its render,
\* editorRowRxToCx(row, rx) is the one column c of chars with
\* editorRowCxToRx(row, c) <= rx < editorRowCxToRx(row, c + 1), so that an rx
\* inside the spaces of a tab gives the column of the tab; for rx at or past
\* the length of render it is the length of chars; and
\* editorRowCxToRx(row, length of chars) is the length of render.
C28_RenderColToCol ==
  law.op = "col" =>
    LET row == CursorRow(E)
        n == Len(row.chars)
    IN  /\ editorRowCxToRx(row, n) = Len(row.render)
        /\ law.rx < Len(row.render) =>
             /\ law.cx \in 0..(n - 1)
             /\ ColumnHolds(row, law.cx, law.rx)
             /\ \A d \in 0..(n - 1) :
                  ColumnHolds(row, d, law.rx) => d = law.cx
        /\ law.rx >= Len(row.render) => law.cx = n

\* Render column 4 of a row with a tab after one character, inside the
\* spaces of the tab, was converted to column 1, the column of the tab.
C28_InsideTab ==
  /\ law.op = "col" /\ law.rx = 4 /\ law.cx = 1
  /\ Len(CursorRow(E).chars) = 3
  /\ CursorRow(E).chars[1] # TAB /\ CursorRow(E).chars[2] = TAB
  /\ editorRowCxToRx(CursorRow(E), 2) = CLITE_TAB_STOP

(***************************************************************************)
(* Properties of search sessions (FindSpec)                                *)
(***************************************************************************)
\* The query occurs in the first and in the last row of three or more, and
\* in no other row.
QueryAtEndsOnly(e, query) ==
  /\ numrows(e) >= 3 /\ query # << >>
  /\ \A k \in 0..(numrows(e) - 1) :
       (strstr(e.row[k + 1].render, query) # -1) <=>
         (k = 0 \/ k = numrows(e) - 1)

\* The visits of one scan: every row at most once, each the neighbour of
\* the one before in one direction, the last row and the first being
\* neighbours.
OnePass(e, visits) ==
  /\ Len(visits) <= numrows(e)
  /\ \A i \in 1..Len(visits) : visits[i] \in 0..(numrows(e) - 1)
  /\ \A i, j \in 1..Len(visits) : i # j => visits[i] # visits[j]
  /\ \E d \in {1, -1} : \A i \in 1..(Len(visits) - 1) :
       visits[i + 1] = (visits[i] + d) % numrows(e)

\* A step of FindSpec that is a key of the session (FindKey).
SessionKey == law'.key \in FindKeys

\* C11, as stated, second half: the query occurs in row 0 and row N only
\* and the search is started with the cursor on row N/2; the forward
\* search goes on from there, so its first match is row N (and row 0 comes
\* after the wraparound).
C11_FirstMatchIsRowN ==
  [][(SessionKey /\ law.key = CTRL_KEY(CH_f)
        /\ QueryAtEndsOnly(E, law'.query)
        /\ law.e0.cy = (numrows(E) - 1) \div 2)
      => last_match' = numrows(E) - 1]_vars

\* C11, amended: each scan visits every row at most once, in one pass with
\* wraparound that stops at the first match or after the last row not yet
\* visited.  The pass starts at the row after the last match, at row 0 when
\* the session has no match yet, wherever the cursor is: with the query in
\* row 0 and row N only, the first match is row 0, the next forward step
\* passes rows 1 to N and matches row N, and the forward step after that
\* wraps around to row 0.
C11_ScanPass ==
  [][SessionKey =>
       /\ OnePass(E, law'.visits)
       /\ law'.matched => (last_match' = Last(law'.visits) /\ E'.cy = last_match')
       /\ (~law'.matched /\ law'.key \notin {CR, ESC}) =>
            (Len(law'.visits) = numrows(E) /\ E'.cy = E.cy /\ E'.cx = E.cx)
       /\ QueryAtEndsOnly(E, law'.query) =>
            LET N == numrows(E) - 1
                forward == law'.key \in {ARROW_RIGHT, ARROW_DOWN}
            IN  /\ law.key = CTRL_KEY(CH_f) =>
                     (law'.visits = <<0>> /\ last_match' = 0)
                /\ (forward /\ last_match = 0) =>
                     (law'.visits = [i \in 1..N |-> i] /\ last_match' = N)
                /\ (forward /\ last_match = N) =>
                     (law'.visits = <<0>> /\ last_match' = 0)]_vars

\* A session begun with the cursor on row 1 of three rows, the query in
\* rows 0 and 2 only: a forward step from the match in row 2 has wrapped
\* around to row 0.
C11_WrappedToRow0 ==
  /\ law.op = "search" /\ law.key = ARROW_DOWN
  /\ QueryAtEndsOnly(E, law.query) /\ numrows(E) = 3
  /\ law.e0.cy = 1
  /\ law.visits = <<0>> /\ last_match = 0 /\ direction = 1
  /\ saved_hl # NULL /\ saved_hl_line = 0

\* C12: a session ended by Escape has cx, cy, rowoff and coloff as they were
\* when it began, whatever was matched in between; a session ended by Enter
\* has the cursor at the last match found, or where it was when nothing
\* matched; either way the chars of the rows, their number and dirty are as
\* they were.
C12_SessionEnd ==
  law.op = "ended" =>
    /\ Text(E) = Text(law.e0)
    /\ numrows(E) = numrows(law.e0)
    /\ E.dirty = law.e0.dirty
    /\ law.key = ESC =>
         /\ E.cx = law.e0.cx /\ E.cy = law.e0.cy
         /\ E.rowoff = law.e0.rowoff /\ E.coloff = law.e0.coloff
    /\ law.key = CR => (E.cy = law.at.cy /\ E.cx = law.at.cx)

\* A session that had moved the cursor to a match in another row and
\* scrolled there was ended by Escape.
C12_EscapedFromMatch ==
  /\ law.op = "ended" /\ law.key = ESC
  /\ law.at.cy # law.e0.cy /\ law.at.cx # law.e0.cx
  /\ E.cy = law.e0.cy

\* Row r of e holds the query.
Holds(e, query, r) == strstr(e.row[r + 1].render, query) # -1

\* The first row that holds the query in the cyclic order start,
\* start + dir, ..., or -1 when no row holds it.
FirstFrom(e, query, start, dir) ==
  LET n == numrows(e)
      row(k) == (start + dir * k + 2 * n) % n
      found == { k \in 0..(n - 1) : Holds(e, query, row(k)) }
  IN  IF found = {} THEN -1
      ELSE row(CHOOSE k \in found : \A j \in found : k <= j)

\* A step of FindSpec that is a key of the session other than Enter, Escape
\* and the arrows: a typed character, a backspace or an ignored key.
TypedKey ==
  law'.key \in FindKeys \ {CR, ESC, ARROW_UP, ARROW_DOWN, ARROW_LEFT,
                           ARROW_RIGHT}

\* C24 as stated: after such a key the direction is forward and, with a
\* match on row m shown before the key, the scan for the edited query
\* begins at row m.
C24_ScanFromCurrentMatch ==
  [][(TypedKey /\ last_match # -1) =>
       /\ direction' = 1
       /\ last_match' = FirstFrom(E, law'.query, last_match, 1)]_vars

\* C24: a key of the session that is neither Enter, Escape nor an arrow
\* resets the session to no previous match and forward direction, and the
\* scan for the edited query begins at row 0, whichever row held the match
\* shown before the key: the match is the first row from the top that
\* holds the query, and there is no previous match when no row holds it.
C24_ScanFromRow0 ==
  [][TypedKey =>
       /\ direction' = 1
       /\ last_match' = FirstFrom(E, law'.query, 0, 1)
       /\ law'.visits # << >> => law'.visits[1] = 0
       /\ law'.matched => E'.cy = last_match']_vars

\* With a match on row 1 shown, and row 0 holding the query too, a
\* backspace has made row 0 the match.
C24_BackFromRow1ToRow0 ==
  /\ law.op = "search" /\ law.key = BACKSPACE
  /\ law.from = 1 /\ last_match = 0 /\ E.cy = 0
  /\ Holds(E, law.query, 1)

\* A step of FindSpec that is an arrow key of the session.
ArrowKey ==
  law'.key \in {ARROW_UP, ARROW_DOWN, ARROW_LEFT, ARROW_RIGHT}

\* C25: with a previous match on row m, Right and Down select forward and
\* Left and Up backward, and the scan finds the nearest row that holds the
\* query strictly after m (forward) or strictly before m (backward) in
\* cyclic order, row m itself when no other row holds it; with no previous
\* match every arrow key searches forward from row 0.
C25_ArrowScan ==
  [][ArrowKey =>
       LET dir == IF law'.key \in {ARROW_RIGHT, ARROW_DOWN} THEN 1 ELSE -1
       IN  /\ last_match = -1 =>
                /\ direction' = 1
                /\ last_match' = FirstFrom(E, law'.query, 0, 1)
           /\ last_match # -1 =>
                /\ direction' = dir
                /\ last_match' =
                     FirstFrom(E, law'.query, last_match + dir, dir)
                /\ last_match' = last_match =>
                     \A r \in 0..(numrows(E) - 1) :
                       Holds(E, law'.query, r) => r = last_match
           /\ last_match' # -1 => E'.cy = last_match']_vars

\* Up from a match on row 0 of three rows has wrapped backward to a match
\* on row 2.
C25_UpWrappedToLastRow ==
  /\ law.op = "search" /\ law.key = ARROW_UP
  /\ numrows(E) = 3 /\ law.from = 0
  /\ last_match = 2 /\ direction = -1 /\ E.cy = 2

\* hl with len entries from offset off on replaced by HL_MATCH.
Overlay(hl, off, len) ==
  [i \in 1..Len(hl) |->
     IF off < i /\ i <= off + len THEN HL_MATCH ELSE hl[i]]

\* No entry of any hl array of e is HL_MATCH.
NoSearchMatch(e) ==
  \A r \in 1..numrows(e) : \A i \in 1..Len(e.row[r].hl) :
    e.row[r].hl[i] # HL_MATCH

\* C26: at every point of a session at most one row carries HL_MATCH
\* entries, the row of the current match, and they cover exactly the query's
\* length from the match's render offset on; every other row, so the row
\* overlaid before once the session has gone on to another match, found no
\* match or ended, has the hl array it had when the session began; after the
\* session no HL_MATCH entry remains, and the statics are at no previous
\* match, forward direction and no snapshot.
C26_MatchOverlay ==
  /\ law.op = "idle" =>
       /\ NoSearchMatch(E)
       /\ last_match = -1 /\ direction = 1 /\ saved_hl = NULL
  /\ law.op \in {"search", "ended"} =>
       /\ NoSearchMatch(law.e0)
       /\ saved_hl = NULL => last_match = -1
       /\ saved_hl # NULL =>
            /\ last_match = saved_hl_line
            /\ Holds(E, law.query, saved_hl_line)
            /\ Deref(saved_hl) = law.e0.row[saved_hl_line + 1].hl
       /\ \A r \in 0..(numrows(E) - 1) :
            E.row[r + 1].hl =
              IF saved_hl # NULL /\ r = saved_hl_line
              THEN Overlay(law.e0.row[r + 1].hl,
                           strstr(E.row[r + 1].render, law.query),
                           Len(law.query))
              ELSE law.e0.row[r + 1].hl
  /\ law.op = "ended" =>
       /\ NoSearchMatch(E)
       /\ last_match = -1 /\ direction = 1 /\ saved_hl = NULL

\* The session has gone on from a match in one row to a match at render
\* offset 8 of another row: that entry is HL_MATCH, and the row left has
\* no HL_MATCH entry.
C26_OverlayMovedOn ==
  /\ law.op = "search" /\ saved_hl # NULL
  /\ law.from \notin {-1, saved_hl_line}
  /\ law.query = <<CH_1>>
  /\ Len(E.row[saved_hl_line + 1].hl) = 9
  /\ E.row[saved_hl_line + 1].hl[9] = HL_MATCH
  /\ E.row[saved_hl_line + 1].hl[8] # HL_MATCH
  /\ \A i \in 1..Len(E.row[law.from + 1].hl) :
       E.row[law.from + 1].hl[i] # HL_MATCH

\* The least offset of render at which query begins.
Leftmost(render, query) ==
  CHOOSE o \in 0..Len(render) :
    /\ o + Len(query) <= Len(render)
    /\ SubSeq(render, o + 1, o + Len(query)) = query
    /\ \A p \in 0..(o - 1) :
         SubSeq(render, p + 1, p + Len(query)) # query

\* A step of FindSpec that is a key of the session with a scan.
ScanKey == law'.key \in FindKeys \ {CR, ESC}

\* C27: when the scan finds the query in row m, leftmost at render offset
\* o, the cursor is at row m and at the chars column of render offset o, and
\* the scroll of the next frame leaves rowoff at m; when the scan finds no
\* row, the cursor and the offsets are as they were.
C27_MatchOnFirstScreenRow ==
  [][ScanKey =>
       /\ law'.matched =>
            LET m == last_match'
                o == Leftmost(E.row[m + 1].render, law'.query)
            IN  /\ m = Last(law'.visits)
                /\ E'.cy = m
                /\ E'.cx = editorRowRxToCx(E.row[m + 1], o)
                /\ E'.rowoff = m
       /\ ~law'.matched =>
            /\ E'.cy = E.cy /\ E'.cx = E.cx
            /\ E'.rowoff = E.rowoff /\ E'.coloff = E.coloff]_vars

\* The query was found at render offset 8 of row 2, behind a tab: the
\* cursor is at column 1 of row 2 and row 2 is the first row of the window.
C27_MatchInLastRow ==
  /\ law.op = "search" /\ law.key = CH_1 /\ law.matched
  /\ last_match = 2 /\ E.cy = 2 /\ E.cx = 1 /\ E.rowoff = 2
  /\ E.row[3].chars = <<TAB, CH_1>>
  /\ law.e0.rowoff = 0

(***************************************************************************)
(* Properties of editorScroll (ScrollSpec)                                 *)
(***************************************************************************)
\* The offset of a window of size cells after the scroll step, from the
\* offset off before it and the cursor's coordinate c on that axis.
OffsetAfter(off, c, size) ==
  IF off <= c /\ c < off + size THEN off
  ELSE IF c < off THEN c
  ELSE c - size + 1

\* C13: after the scroll step, with screenrows and screencols >= 1, rx is
\* the render column of cx in the cursor's row (0 below the last row),
\* rowoff <= cy < rowoff + screenrows and coloff <= rx < coloff + screencols;
\* an offset is as before when the cursor was inside the window on its
\* axis, else cy (rx) when the cursor was above (left), else
\* cy - screenrows + 1 (rx - screencols + 1).
C13_ScrollWindow ==
  (law.op = "scrolled" /\ E.screenrows >= 1 /\ E.screencols >= 1) =>
    /\ E.rx = IF E.cy < numrows(E) THEN editorRowCxToRx(CursorRow(E), E.cx)
              ELSE 0
    /\ E.rowoff <= E.cy /\ E.cy < E.rowoff + E.screenrows
    /\ E.coloff <= E.rx /\ E.rx < E.coloff + E.screencols
    /\ E.rowoff = OffsetAfter(law.e0.rowoff, E.cy, E.screenrows)
    /\ E.coloff = OffsetAfter(law.e0.coloff, E.rx, E.screencols)
    /\ E.cx = law.e0.cx /\ E.cy = law.e0.cy

\* The window was below and left of the cursor's cell, which is behind a
\* tab, and has moved on both axes.
C13_ScrolledBothAxes ==
  /\ law.op = "scrolled"
  /\ E.cy < law.e0.rowoff /\ E.rowoff = E.cy
  /\ law.e0.coloff + E.screencols <= E.rx
  /\ E.coloff = E.rx - E.screencols + 1
  /\ E.rx > E.cx


(***************************************************************************)
(* Properties of the key decoder (KeySpec)                                 *)
(***************************************************************************)
\* The byte the i-th read of the last call yielded, -1 when it yielded none.
ByteAt(i) ==
  IF i <= Len(law.q0) /\ law.q0[i].nread = 1 THEN law.q0[i].c ELSE -1

\* The sequences of the table and their keys, without the leading ESC.
KeyTable ==
  (<<LBRACKET, CH_A>> :> ARROW_UP) @@ (<<LBRACKET, CH_B>> :> ARROW_DOWN) @@
  (<<LBRACKET, CH_C>> :> ARROW_RIGHT) @@ (<<LBRACKET, CH_D>> :> ARROW_LEFT) @@
  (<<LBRACKET, CH_H>> :> HOME_KEY) @@ (<<LBRACKET, CH_F>> :> END_KEY) @@
  (<<CH_O, CH_H>> :> HOME_KEY) @@ (<<CH_O, CH_F>> :> END_KEY) @@
  (<<LBRACKET, CH_0 + 1, TILDE>> :> HOME_KEY) @@
  (<<LBRACKET, CH_0 + 7, TILDE>> :> HOME_KEY) @@
  (<<LBRACKET, CH_0 + 3, TILDE>> :> DEL_KEY) @@
  (<<LBRACKET, CH_0 + 4, TILDE>> :> END_KEY) @@
  (<<LBRACKET, CH_0 + 8, TILDE>> :> END_KEY) @@
  (<<LBRACKET, CH_0 + 5, TILDE>> :> PAGE_UP) @@
  (<<LBRACKET, CH_0 + 6, TILDE>> :> PAGE_DOWN)

\* C14: a call whose first read yields a byte other than ESC returns that
\* byte; one that reads ESC and then a sequence of the table returns the
\* key of that sequence (ESC [ A/B/C/D/H/F, ESC O H/F, ESC [ digit ~); and
\* after ESC [ digit the call returns one of the keys of the digit forms
\* only when the byte after the digit is ~.
C14_DecodeTable ==
  (law.op = "read" /\ ByteAt(1) # -1) =>
    /\ law.status = "key"
    /\ ByteAt(1) # ESC => law.key = ByteAt(1)
    /\ (ByteAt(1) = ESC /\ <<ByteAt(2), ByteAt(3)>> \in DOMAIN KeyTable)
         => law.key = KeyTable[<<ByteAt(2), ByteAt(3)>>]
    /\ (ByteAt(1) = ESC
          /\ <<ByteAt(2), ByteAt(3), ByteAt(4)>> \in DOMAIN KeyTable)
         => law.key = KeyTable[<<ByteAt(2), ByteAt(3), ByteAt(4)>>]
    /\ (ByteAt(1) = ESC /\ ByteAt(2) = LBRACKET
          /\ ByteAt(3) \in CH_0..CH_9 /\ ByteAt(4) # TILDE)
         => law.key = ESC

\* ESC [ 7 ~ was decoded as Home.
C14_SevenTildeIsHome ==
  /\ law.op = "read"
  /\ <<ByteAt(1), ByteAt(2), ByteAt(3), ByteAt(4)>>
       = <<ESC, LBRACKET, CH_0 + 7, TILDE>>
  /\ law.key = HOME_KEY


\* The i-th read of the last call yielded nothing within the timeout.
TimedOut(i) ==
  \/ i > Len(law.q0)
  \/ law.q0[i].nread = 0
  \/ law.q0[i].nread = -1 /\ law.q0[i].errno = "EAGAIN"

\* ESC [ digit was read.
DigitRead ==
  ByteAt(1) = ESC /\ ByteAt(2) = LBRACKET /\ ByteAt(3) \in CH_0..CH_9

\* After ESC a follow-up byte did not arrive in time, or the bytes that
\* arrived are no sequence of the table.
NoSequence ==
  /\ ByteAt(1) = ESC
  /\ \/ TimedOut(2)
     \/ ByteAt(2) # -1 /\ TimedOut(3)
     \/ /\ ByteAt(2) # -1 /\ ByteAt(3) # -1 /\ ~DigitRead
        /\ <<ByteAt(2), ByteAt(3)>> \notin DOMAIN KeyTable
     \/ /\ DigitRead
        /\ \/ TimedOut(4)
           \/ /\ ByteAt(4) # -1
              /\ <<ByteAt(2), ByteAt(3), ByteAt(4)>> \notin DOMAIN KeyTable

\* The reads of such a call: ESC, then follow-up bytes up to the first that
\* does not arrive, two of them, or three after ESC [ digit.
ReadsMade ==
  IF ByteAt(2) = -1 THEN 2
  ELSE IF ByteAt(3) = -1 THEN 3
  ELSE IF DigitRead THEN 4
  ELSE 3

\* C15: a call that reads ESC and then misses a follow-up byte, or reads
\* bytes that form no sequence of the table, returns one key, the bare
\* Escape, without failing, and leaves for the calls after it exactly the
\* input that follows the bytes it read.
C15_UnknownIsEscape ==
  (law.op = "read" /\ NoSequence) =>
    /\ law.status = "key"
    /\ law.key = ESC
    /\ law.rest = SubSeq(law.q0, ReadsMade + 1, Len(law.q0))

\* ESC [ 2 ~ was read with a byte behind it: bare Escape was returned and
\* only that byte is left.
C15_TwoTildeSwallowed ==
  /\ law.op = "read"
  /\ <<ByteAt(1), ByteAt(2), ByteAt(3), ByteAt(4)>>
       = <<ESC, LBRACKET, CH_0 + 2, TILDE>>
  /\ law.key = ESC
  /\ law.rest = <<ReadByte(CH_x)>>


\* The number of reads the last call made, and whether the i-th of them
\* failed with an errno other than EAGAIN.
ReadsOfCall == Len(law.q0) - Len(law.rest)

FailedAt(i) ==
  i <= ReadsOfCall /\ law.q0[i].nread = -1 /\ law.q0[i].errno # "EAGAIN"

RECURSIVE QuoteBefore(_, _)
QuoteBefore(r, i) ==
  IF i = 1 THEN [q |-> 0, esc |-> FALSE]
  ELSE LET st == QuoteBefore(r, i - 1)
           c == r[i - 1]
       IN  IF st.esc THEN [q |-> st.q, esc |-> FALSE]
           ELSE IF st.q # 0
             THEN IF c = BACKSLASH THEN [q |-> st.q, esc |-> TRUE]
                  ELSE IF c = st.q THEN [q |-> 0, esc |-> FALSE]
                  ELSE st
           ELSE IF c = DQUOTE \/ c = SQUOTE THEN [q |-> c, esc |-> FALSE]
           ELSE st

\* The places of r where // stands outside a quoted string.
CommentStarts(r) ==
  { i \in 1..(Len(r) - 1) :
      QuoteBefore(r, i).q = 0 /\ r[i] = SLASH /\ r[i + 1] = SLASH }

\* The first of them, Len(r) + 1 when there is none.
CommentFrom(r) ==
  IF CommentStarts(r) = {} THEN Len(r) + 1
  ELSE CHOOSE i \in CommentStarts(r) : \A j \in CommentStarts(r) : i <= j

\* The inserted row.
HlRow == E.row[1]

\* Comment is the class of exactly the characters from the first // outside
\* a string to the end of the row.
CommentRule ==
  \A i \in 1..Len(HlRow.render) :
    HlRow.hl[i] = HL_COMMENT <=> i >= CommentFrom(HlRow.render)

\* Character i of r counts as a separator for the character behind it: it
\* is one of is_separator, or it is the closing quote of a string, which
\* the highlighter marks as a separator too.
SeparatorAt(r, i) ==
  \/ is_separator(r[i])
  \/ QuoteBefore(r, i).q # 0 /\ QuoteBefore(r, i + 1).q = 0

\* A digit outside strings and comments is Number exactly when it follows
\* the row start, a separator or a Number character.
NumberRule ==
  \A i \in 1..(CommentFrom(HlRow.render) - 1) :
    (isdigit(HlRow.render[i]) /\ QuoteBefore(HlRow.render, i).q = 0) =>
      ( HlRow.hl[i] = HL_NUMBER <=>
          \/ i = 1
          \/ SeparatorAt(HlRow.render, i - 1)
          \/ HlRow.hl[i - 1] = HL_NUMBER )

\* The classes of "int x = 1;" and of "// done".
ExampleRows ==
  /\ law.s = ROW_INT_X =>
       HlRow.hl = [i \in 1..10 |-> IF i = 9 THEN HL_NUMBER ELSE HL_NORMAL]
  /\ law.s = ROW_DONE => HlRow.hl = [i \in 1..7 |-> HL_COMMENT]

Terminal80x24 == E.screencols = 80 /\ E.screenrows = 24 - 2

\* The screen rows, from 0, that hold the welcome message.
WelcomeRows ==
  { y \in 0..(E.screenrows - 1) : law.rows[y + 1].text = "welcome" }

\* A screen row that holds a tilde and nothing else.
TildeOnly(line) == line.lead = "~" /\ line.spaces = 0 /\ line.len = 0

\* The welcome message is centered in 80 columns: behind the tilde and the
\* spaces it starts at column (80 - WELCOME_LEN) \div 2.
Centered(line) ==
  /\ line.lead = "~" /\ line.len = WELCOME_LEN
  /\ 1 + line.spaces = (80 - WELCOME_LEN) \div 2

\* C17 as stated: with an empty document on an 80x24 terminal the welcome
\* message is on screen row 8 (24/3, from 0).
C17_BannerOnRow8 ==
  (law.op = "drawn" /\ numrows(E) = 0 /\ Terminal80x24) =>
    WelcomeRows = {24 \div 3}

\* C17: with an empty document on an 80x24 terminal the centered welcome
\* message is drawn on screen row 7 (a third of the 22 text rows, from 0)
\* and a tilde on every other text row; with a document that has rows no
\* screen row holds the welcome message, on any terminal.
C17_Banner ==
  law.op = "drawn" =>
    /\ (numrows(E) = 0 /\ Terminal80x24) =>
         /\ WelcomeRows = {(24 - 2) \div 3}
         /\ \A y \in 0..(E.screenrows - 1) :
              IF y = 7 THEN Centered(law.rows[y + 1])
              ELSE TildeOnly(law.rows[y + 1])
    /\ numrows(E) # 0 => WelcomeRows = {}

\* The empty document was drawn on the 80x24 terminal: the message is on
\* row 7 and row 8 holds a tilde.
C17_BannerOnRow7 ==
  /\ law.op = "drawn" /\ numrows(E) = 0 /\ Terminal80x24
  /\ law.rows[7 + 1].text = "welcome"
  /\ TildeOnly(law.rows[8 + 1])


(***************************************************************************)
(* Properties of the main loop (LoopSpec)                                  *)
(***************************************************************************)
\* The message bar shows a message that was set 5 seconds ago or earlier.
OldMessageShown ==
  law.bar # MSG_EMPTY /\ law.now - law.statusmsg_time >= 5

\* C18 as stated: while the process runs, a status message that is shown
\* and 5 seconds old stops being shown, whether or not a key arrives.
C18_MessageExpires ==
  OldMessageShown ~> (~OldMessageShown \/ law.at = "exit")

\* C18: a read that times out is retried inside editorReadKey, which gives
\* control back to the main loop only when a byte was read; the message bar
\* is rewritten only by a frame, which shows the message exactly when it is
\* then less than 5 seconds old, so a message on the screen stays there,
\* however old, until a key arrives.
C18_ShownUntilKey ==
  [][/\ law.at = "retry" => law'.at \in {"retry", "read"}
     /\ (law.at = "read" /\ law'.at = "refresh") => law'.nread = 1
     /\ law'.bar # law.bar => law.at = "refresh"
     /\ (law.at = "refresh" /\ law'.at = "read") =>
          (law'.bar # MSG_EMPTY <=>
             (E.statusmsg # MSG_EMPTY /\ law.now - law.statusmsg_time < 5))
    ]_vars

\* The help message is still in the message bar 5 seconds after it was set,
\* while the decoder retries its read.
C18_OldMessageOnScreen ==
  law.op = "loop" /\ law.at = "retry" /\ OldMessageShown /\ law.bar = MSG_HELP


(***************************************************************************)
(* Properties of the arrow keys (MoveSpec)                                 *)
(***************************************************************************)
\* The length of row r of e, 0 past the last row.
RowLen(e, r) == IF r < numrows(e) THEN Len(e.row[r + 1].chars) ELSE 0

\* The smaller of two numbers.
Min(a, b) == IF a < b THEN a ELSE b

\* Where an arrow key takes the cursor from (cy, cx) in e, as <<cy, cx>>.
ArrowTarget(e, key) ==
  CASE key = ARROW_LEFT ->
         IF e.cx > 0 THEN <<e.cy, e.cx - 1>>
         ELSE IF e.cy > 0 THEN <<e.cy - 1, RowLen(e, e.cy - 1)>>
         ELSE <<0, 0>>
    [] key = ARROW_RIGHT ->
         IF e.cy >= numrows(e) THEN <<e.cy, e.cx>>
         ELSE IF e.cx < RowLen(e, e.cy) THEN <<e.cy, e.cx + 1>>
         ELSE <<e.cy + 1, 0>>
    [] key = ARROW_UP ->
         IF e.cy > 0 THEN <<e.cy - 1, Min(e.cx, RowLen(e, e.cy - 1))>>
         ELSE <<e.cy, e.cx>>
    [] key = ARROW_DOWN ->
         IF e.cy < numrows(e)
           THEN <<e.cy + 1, Min(e.cx, RowLen(e, e.cy + 1))>>
           ELSE <<e.cy, e.cx>>

\* C20: an arrow key leaves the rows and dirty as they were.  Left takes
\* one off cx, or from column 0 of row r > 0 goes to the end of row r - 1,
\* or at (0, 0) does nothing; Right adds one to cx, or from the end of row r
\* goes to (r + 1, 0), which may be past the last row, or past the last row
\* does nothing; Up and Down change cy by one within [0, numrows] and cx
\* becomes at most the length of the landing row, 0 past the last row.
C20_ArrowKeys ==
  law.op = "moved" =>
    /\ E.row = law.e0.row
    /\ E.dirty = law.e0.dirty
    /\ <<E.cy, E.cx>> = ArrowTarget(law.e0, law.key)
    /\ E.cy \in 0..numrows(E)
    /\ E.cx <= RowLen(E, E.cy)

\* Down from beyond the end of the row below: cx was cut to that row's
\* length.
C20_ClampedGoingDown ==
  /\ law.op = "moved" /\ law.key = ARROW_DOWN
  /\ E.cy = law.e0.cy + 1 /\ E.cy < numrows(E)
  /\ law.e0.cx > RowLen(E, E.cy)
  /\ E.cx = RowLen(E, E.cy)


(***************************************************************************)
(* Properties of Delete, Backspace and Enter (EditSpec)                    *)
(***************************************************************************)
\* The sequence s without its element i.
Without(s, i) == SubSeq(s, 1, i - 1) \o SubSeq(s, i + 1, Len(s))

\* The rows of d with rows r and r + 1 (from 0) made one.
Joined(d, r) ==
  SubSeq(d, 1, r) \o <<d[r + 1] \o d[r + 2]>> \o SubSeq(d, r + 3, Len(d))

\* The last key was c, pressed with the cursor at (cy, cx) in law.e0.
Pressed(c) == law.op = "key" /\ law.key = c

SameCursor == E.cy = law.e0.cy /\ E.cx = law.e0.cx

\* What Delete does to the rows: the character after the cursor goes, or
\* the next row is joined onto the cursor's row at its end, or, past the
\* last row and at the end of the last row, nothing.
DeleteRows ==
  LET d == Text(law.e0)
      r == law.e0.cy
      k == law.e0.cx
  IN  Text(E) =
        IF r >= Len(d) THEN d
        ELSE IF k < Len(d[r + 1])
          THEN [d EXCEPT ![r + 1] = Without(@, k + 1)]
        ELSE IF r + 1 < Len(d) THEN Joined(d, r)
        ELSE d

\* The cursor was at the end of the last row.
AtEndOfLastRow(e) ==
  e.cy = numrows(e) - 1 /\ e.cx = RowLen(e, e.cy)

\* C21 as stated: Delete leaves the cursor where it was in every state.
C21_DeleteKeepsCursor == Pressed(DEL_KEY) => SameCursor

\* C21: Delete removes the character after the cursor, or joins the next
\* row onto the cursor's row when the cursor is at the end of a row that
\* has a successor, and leaves the cursor where it was; at the end of the
\* last row it leaves the document as it was and moves the cursor to
\* column 0 past the last row; past the last row it changes nothing.
C21_Delete ==
  Pressed(DEL_KEY) =>
    /\ DeleteRows
    /\ IF AtEndOfLastRow(law.e0)
         THEN /\ E.cy = numrows(E) /\ E.cx = 0
              /\ E.dirty = law.e0.dirty
         ELSE SameCursor

\* Delete at the end of the last row: the rows are as before and the
\* cursor is below them.
C21_DeleteAtEnd ==
  /\ Pressed(DEL_KEY) /\ AtEndOfLastRow(law.e0)
  /\ Text(E) = Text(law.e0) /\ numrows(E) > 0
  /\ E.cy = law.e0.cy + 1 /\ E.cx = 0


\* The last key was a Backspace (127 or Ctrl-H).
PressedBackspace == Pressed(BACKSPACE) \/ Pressed(CTRL_KEY(CH_h))

\* C22: Backspace at column 0 of an existing row r >= 1 replaces row r - 1
\* by old row r - 1 followed by old row r, removes row r, leaves the rows
\* behind it in their order one place up, and puts the cursor at
\* (r - 1, old length of row r - 1); Backspace at (0, 0), and Backspace
\* past the last row, change neither rows nor cursor nor dirty.
C22_BackspaceAtColumn0 ==
  LET d == Text(law.e0)
      r == law.e0.cy
  IN  (PressedBackspace /\ law.e0.cx = 0) =>
        IF r >= 1 /\ r < Len(d)
          THEN /\ Text(E) = Joined(d, r - 1)
               /\ numrows(E) = Len(d) - 1
               /\ \A j \in (r + 1)..(Len(d) - 1) : Text(E)[j] = d[j + 1]
               /\ E.cy = r - 1 /\ E.cx = Len(d[r])
          ELSE /\ E.row = law.e0.row
               /\ SameCursor
               /\ E.dirty = law.e0.dirty

\* Backspace at column 0 of the middle row of three: two rows are left and
\* the last one has moved up.
C22_JoinedMiddleRow ==
  /\ PressedBackspace /\ law.e0.cx = 0 /\ law.e0.cy = 1
  /\ numrows(law.e0) = 3 /\ numrows(E) = 2
  /\ Text(E)[2] = Text(law.e0)[3]
  /\ Text(E)[1] # Text(law.e0)[1]
  /\ E.cy = 0 /\ E.cx > 0


\* C23: Enter at (r, k) on an existing row makes the rows one more, row r
\* holding the chars before k and the new row r + 1 those from k on, leaves
\* the other rows as they were and in their order, and puts the cursor at
\* (r + 1, 0); past the last row it appends one empty row and the cursor is
\* past the last row again.
C23_EnterSplits ==
  LET d == Text(law.e0)
      r == law.e0.cy
      k == law.e0.cx
  IN  Pressed(CR) =>
        /\ numrows(E) = Len(d) + 1
        /\ E.cy = r + 1 /\ E.cx = 0
        /\ IF r < Len(d)
             THEN /\ Text(E)[r + 1] = SubSeq(d[r + 1], 1, k)
                  /\ Text(E)[r + 2] = SubSeq(d[r + 1], k + 1, Len(d[r + 1]))
                  /\ Text(E)[r + 1] \o Text(E)[r + 2] = d[r + 1]
                  /\ \A j \in 1..r : Text(E)[j] = d[j]
                  /\ \A j \in (r + 2)..Len(d) : Text(E)[j + 1] = d[j]
             ELSE /\ Text(E) = Append(d, << >>)
                  /\ E.cy = numrows(E)

\* Enter inside the first row of several: both halves have characters and
\* the rows behind have moved down.
C23_SplitInside ==
  /\ Pressed(CR) /\ law.e0.cy = 0 /\ numrows(law.e0) >= 2
  /\ Text(E)[1] # << >> /\ Text(E)[2] # << >>
  /\ Text(E)[3] = Text(law.e0)[2]

(***************************************************************************)
(* Properties of the keys of editorProcessKeypress (DispatchSpec)          *)
(***************************************************************************)
\* A step of DispatchSpec that is key c.
DispPressed(c) == law'.key = c

\* C29: Ctrl-S with no filename opens the "Save as" prompt; Escape there
\* shows "Save aborted", writes nothing and leaves the filename unset and
\* the rows, the cursor, the profile and dirty as they were; Enter on empty
\* input does not end the prompt; the prompt returns non-empty names only.
C29_SaveAsPrompt ==
  [][/\ (DispPressed(CTRL_KEY(CH_s)) /\ E.filename = NULL) =>
          /\ prompt' = "save" /\ buf' = << >>
          /\ E' = [E EXCEPT !.statusmsg = Msg(PROMPT_SAVE, << >>)]
          /\ ~law'.wrote
     /\ (DispPressed(ESC) /\ prompt = "save") =>
          /\ prompt' = "none"
          /\ E' = [E EXCEPT !.statusmsg = MSG_ABORTED]
          /\ E'.filename = NULL
          /\ ~law'.wrote /\ law'.base = law.base
     /\ (DispPressed(CR) /\ prompt = "save" /\ buf = << >>) =>
          /\ prompt' = "save" /\ buf' = << >>
          /\ E' = E
     /\ (prompt = "save" /\ prompt' = "none" /\ law'.key # ESC) =>
          /\ law'.key = CR
          /\ Len(buf) > 0
          /\ E'.filename = Ptr(buf)]_vars

\* A "Save as" prompt on an edited document was ended by Escape: the
\* message is "Save aborted" and the document is dirty and without a
\* filename still.
C29_SaveAborted ==
  /\ law.op = "returned" /\ law.key = ESC
  /\ prompt = "none" /\ saved = NoSaved
  /\ E.statusmsg = MSG_ABORTED
  /\ E.filename = NULL /\ E.syntax = NULL
  /\ E.dirty > 0 /\ numrows(E) > 0

\* Delete and Backspace with nothing to delete at the cursor of e.
NothingToDelete(e, c) ==
  \/ e.cy = numrows(e)
  \/ c = DEL_KEY /\ e.cy = numrows(e) - 1
                 /\ e.cx = Len(e.row[e.cy + 1].chars)
  \/ c # DEL_KEY /\ e.cx = 0 /\ e.cy = 0

\* C30: a key that changes the chars of a row or the number of rows makes
\* dirty strictly larger; a key that changes neither (a cursor key, Home,
\* End, Page Up, Page Down, Ctrl-L, Escape, every key of a search session,
\* a Backspace or Delete with nothing to delete, a failed or cancelled save)
\* leaves dirty as it is, and a successful save, which changes neither, sets
\* it to 0; so while dirty is 0 the rows are those of the last load or
\* successful save.
C30_DirtyCounts ==
  /\ [](E.dirty = 0 => Text(E) = law.base)
  /\ [][LET changed == Text(E') # Text(E)
            key == law'.key
        IN  /\ changed => E'.dirty > E.dirty
            /\ (~changed /\ ~law'.wrote) => E'.dirty = E.dirty
            /\ law'.wrote => (~changed /\ E'.dirty = 0)
            /\ prompt # "none" => ~changed
            /\ (prompt = "none" /\ key \in DispMoveKeys) => ~changed
            /\ (prompt = "none" /\ key \in {CTRL_KEY(CH_s), CTRL_KEY(CH_f),
                                           CTRL_KEY(CH_q)}) => ~changed
            /\ (prompt = "none" /\ key \in {CR} \cup InsChars) => changed
            /\ (prompt = "none"
                  /\ key \in {BACKSPACE, CTRL_KEY(CH_h), DEL_KEY}) =>
                 (changed <=> ~NothingToDelete(E, key))]_vars

\* A document typed into the empty editor was saved under the name "."
\* entered in the prompt, and a key pressed after that has changed it: dirty
\* is above 0 again and the rows are no longer those saved.
C30_EditedAfterSave ==
  /\ law.op = "key" /\ law.key \in DispEditKeys
  /\ E.filename = Ptr(<<DOT>>) /\ law.base # << >>
  /\ E.dirty > 0 /\ Text(E) # law.base
  /\ E.statusmsg.fmt = "%d bytes written to disk"

=============================================================================
